---- MODULE Spec2Model ----
(***************************************************************************)
(* A model of the bytecode interpreter: the compiler (AST -> chunks), the  *)
(* stack VM and the mark-sweep ObjectAllocator.                            *)
(*                                                                         *)
(* Conventions.                                                            *)
(*  - A Value is [t, v]: t is the ValueType tag, v the payload (a number,  *)
(*    0/1 for a bool, an object id for an object).  Numbers are doubles in *)
(*    the source; the model runs them on the integers.                     *)
(*  - An Object* is an id: the index of the object in allocator.heap.  A   *)
(*    freed object keeps its record with freed = TRUE, so that a dangling  *)
(*    pointer can still be followed; ids are never reused.  Id 0 is the    *)
(*    null pointer.                                                        *)
(*  - A HashMap<T> is a function from the key text to [val, key]: key is   *)
(*    the id of the StringObject whose characters the string_view key      *)
(*    points into (0 for a string literal of the binary).                  *)
(*  - Chunk code is a sequence of bytes; the byte at offset i is code[i+1].*)
(***************************************************************************)
EXTENDS Integers, Sequences, FiniteSets, TLC

VARIABLES
    phase,          \* run_file's position: "parsed", "compiled", "running",
                    \*   "done"
    prog,           \* the declarations Parser::parse returned (index into Programs)
    script,         \* the FunctionObject Compiler::compile returned
    now,            \* what clock() / CLOCKS_PER_SEC yields in this run
    stack,          \* FixedStack<Value>: [data, top], with the history
                    \*   [born, epoch]: born[i] numbers the push that made
                    \*   slot i - 1 live, epoch counts the pushes
    callstack,      \* CallStack: sequence of CallFrame [closure, ip, offset]
    open_upvalues,  \* std::vector<UpValueObject*>
    globals,        \* HashMap<Value>
    allocator,      \* ObjectAllocator: [heap, objects, interned_strings,
                    \*   bytes_allocated, next_collection, stress_gc];
                    \*   stress_gc: the build defines DEBUG_STRESS_GC
    result,         \* "NONE", "OK", "RUNTIME_ERROR", "COMPILE_ERROR", "CRASH"
    out,            \* lines written to standard output
    errs,           \* lines written to standard error
    gc,             \* history of the collections: [count, freed, lost]
    stmt,           \* history, per frame: the expression statement begun
                    \*   last, [depth, end]
    ub,             \* history: the run has gone on after undefined behaviour
    compiler        \* the Compiler while it visits the statements of a block
                    \*   one by one: [c, node], c the compiler [A, fs, err,
                    \*   ub] and node the number of statements visited;
                    \*   <<>> while run_file is not inside compile()

vars == <<phase, prog, script, now, stack, callstack, open_upvalues, globals,
          allocator, result, out, errs, gc, stmt, ub, compiler>>

-----------------------------------------------------------------------------
(* Only({e : x \in {v}}) is e with x standing for the value of v: the way  *)
(* the model names an intermediate result that is used more than once.     *)

Only(S) == CHOOSE x \in S : TRUE

-----------------------------------------------------------------------------
(* Limits *)

\* stack.h:87 MAX_FRAMES (64 in the source; the model runs a smaller call stack)
MAX_FRAMES == 3

UINT8_MAX == 255

UINT16_MAX == 65535

\* stack.h:88
STACK_MAX == MAX_FRAMES * (UINT8_MAX + 1)

\* compiler.h:76-77
MAX_LOCALS == UINT8_MAX + 1

MAX_UPVALUES == UINT8_MAX + 1

\* object.h:327
InitialNextCollection == 1048576

\* object.h:328
GrowthFactor == 2

-----------------------------------------------------------------------------
(* chunk.h: enum class OpCode *)

OP_RETURN == 0
OP_POP == 1
OP_DEFINE_GLOBAL == 2
OP_GET_GLOBAL == 3
OP_SET_GLOBAL == 4
OP_GET_LOCAL == 5
OP_SET_LOCAL == 6
OP_CONSTANT == 7
OP_NIL == 8
OP_TRUE == 9
OP_FALSE == 10
OP_NOT == 11
OP_NEGATE == 12
OP_EQUAL == 13
OP_GREATER == 14
OP_LESS == 15
OP_ADD == 16
OP_SUBTRACT == 17
OP_MULTIPLY == 18
OP_DIVIDE == 19
OP_JUMP_IF_FALSE == 20
OP_JUMP_IF_TRUE == 21
OP_JUMP == 22
OP_LOOP == 23
OP_CALL == 24
OP_CLOSURE == 25
OP_GET_UPVALUE == 26
OP_SET_UPVALUE == 27
OP_CLOSE_UPVALUE == 28
OP_CLASS == 29
OP_GET_PROPERTY == 30
OP_SET_PROPERTY == 31
OP_METHOD == 32
OP_INVOKE == 33
OP_INHERIT == 34
OP_GET_SUPER == 35
OP_SUPER_INVOKE == 36

-----------------------------------------------------------------------------
(* value.h: Value *)

NilVal == [t |-> "NIL", v |-> 0]

BoolVal(b) == [t |-> "BOOL", v |-> IF b THEN 1 ELSE 0]

NumberVal(n) == [t |-> "NUMBER", v |-> n]

ObjectVal(o) == [t |-> "OBJECT", v |-> o]

is_bool(val) == val.t = "BOOL"

is_number(val) == val.t = "NUMBER"

is_nil(val) == val.t = "NIL"

is_object(val) == val.t = "OBJECT"

is_falsey(val) == is_nil(val) \/ (is_bool(val) /\ val.v = 0)

\* Value::operator==
ValueEq(a, b) == a.t = b.t /\ (a.t = "NIL" \/ a.v = b.v)

-----------------------------------------------------------------------------
(* common.h: HashMap<T> = absl::flat_hash_map<std::string_view, T> *)

EmptyMap == <<>>

MapHas(m, k) == k \in DOMAIN m

MapPut(m, k, val, keyobj) ==
    [x \in DOMAIN m \cup {k} |->
        IF x = k
        THEN [val |-> val, key |-> IF k \in DOMAIN m THEN m[k].key ELSE keyobj]
        ELSE m[x]]

MapErase(m, ks) == [x \in DOMAIN m \ ks |-> m[x]]

-----------------------------------------------------------------------------
(* object.h: the heap objects.  Every object carries the model's freed     *)
(* flag and Object::_is_marked.                                            *)

StringObject(value) ==
    [kind |-> "String", freed |-> FALSE, is_marked |-> FALSE, value |-> value]

\* exprstmts is history: the [start, end) code ranges of the expression
\* statements of this function, recorded for the stack-discipline properties.
FunctionObject(name, arity) ==
    [kind |-> "Function", freed |-> FALSE, is_marked |-> FALSE, name |-> name,
     arity |-> arity, upvalue_count |-> 0, code |-> <<>>, constants |-> <<>>,
     exprstmts |-> {}]

\* location is a stack slot while open and &closed once closed; born is
\* history: the push that made the captured slot live
UpValueObject(slot, born) ==
    [kind |-> "UpValue", freed |-> FALSE, is_marked |-> FALSE, open |-> TRUE,
     slot |-> slot, closed |-> NilVal, born |-> born]

ClosureObject(function, upvalues) ==
    [kind |-> "Closure", freed |-> FALSE, is_marked |-> FALSE,
     function |-> function, upvalues |-> upvalues]

BoundMethodObject(receiver, method) ==
    [kind |-> "BoundMethod", freed |-> FALSE, is_marked |-> FALSE,
     receiver |-> receiver, method |-> method]

ClassObject(name) ==
    [kind |-> "Class", freed |-> FALSE, is_marked |-> FALSE, name |-> name,
     methods |-> EmptyMap]

InstanceObject(klass) ==
    [kind |-> "Instance", freed |-> FALSE, is_marked |-> FALSE, klass |-> klass,
     fields |-> EmptyMap]

NativeFunctionObject(native_fn) ==
    [kind |-> "NativeFunction", freed |-> FALSE, is_marked |-> FALSE,
     native_fn |-> native_fn]

\* ADD_SIZE_METHOD: sizeof(type), here for an LP64 build
SizeOf(kind) ==
    CASE kind = "String" -> 48
      [] kind = "Function" -> 128
      [] kind = "UpValue" -> 40
      [] kind = "Closure" -> 48
      [] kind = "BoundMethod" -> 40
      [] kind = "Class" -> 80
      [] kind = "Instance" -> 56
      [] kind = "NativeFunction" -> 24

\* Object::as<T>(): dynamic_cast<T*>; 0 when the object is of another class
As(h, o, kind) == IF h[o].kind = kind THEN o ELSE 0

-----------------------------------------------------------------------------
(* Undefined behaviour is recorded as a level: "no"; "stale", the code read *)
(* or wrote memory it must not (a freed object, a slot past the stack      *)
(* array, a member of a null object that is not used afterwards), after    *)
(* which the build either goes on as if the access were good or crashes;   *)
(* "wild", it used a pointer that is no object at all, and crashes.        *)

Worse(a, b) ==
    IF a = "wild" \/ b = "wild" THEN "wild"
    ELSE IF a = "stale" \/ b = "stale" THEN "stale" ELSE "no"

\* the level of dereferencing object pointer o
DerefLevel(h, o) ==
    IF o = 0 \/ o > Len(h) THEN "wild"
    ELSE IF h[o].freed THEN "stale" ELSE "no"

-----------------------------------------------------------------------------------------------------------------------------------------------------
(* object.cpp: the collector.  The grey list is a set here: the objects    *)
(* marked, and so the objects swept, do not depend on the order in which   *)
(* the grey objects are blackened.                                         *)

Range(seq) == {seq[i] : i \in DOMAIN seq}

\* the mapped values of a HashMap
MapValues(m) == {m[k].val : k \in DOMAIN m}

\* Value::mark (declared in value.h; marks the object of an object value):
\* the pointers marked for a set of Values
ValueMark(vals) == {val.v : val \in {x \in vals : is_object(x)}}

\* ClosureObject::blacken: the pointers marked
ClosureBlacken(h, o) == {h[o].function} \cup Range(h[o].upvalues)

\* ClassObject::blacken: for each method, method->blacken(grey_list)
ClassBlacken(h, o) ==
    UNION {ClosureBlacken(h, m) : m \in MapValues(h[o].methods) \cap DOMAIN h}

\* the virtual Object::blacken: the pointers marked
\* a blacken that marks the references of every object but the constants
\* of a function
BlackenButConstants(h, o) ==
    CASE h[o].kind = "UpValue" -> ValueMark({h[o].closed})
      [] h[o].kind = "Closure" -> ClosureBlacken(h, o)
      [] h[o].kind = "BoundMethod" ->
            ValueMark({h[o].receiver}) \cup {h[o].method}
      [] h[o].kind = "Class" -> ClassBlacken(h, o)
      [] h[o].kind = "Instance" ->
            {h[o].klass} \cup ValueMark(MapValues(h[o].fields))
      [] OTHER -> {}

Blacken(h, o) ==
    CASE h[o].kind = "Function" -> ValueMark(Range(h[o].constants))
      [] h[o].kind = "UpValue" -> ValueMark({h[o].closed})
      [] h[o].kind = "Closure" -> ClosureBlacken(h, o)
      [] h[o].kind = "BoundMethod" ->
            ValueMark({h[o].receiver}) \cup {h[o].method}
      [] h[o].kind = "Class" -> ClassBlacken(h, o)
      [] h[o].kind = "Instance" ->
            {h[o].klass} \cup ValueMark(MapValues(h[o].fields))
      [] OTHER -> {}

\* the pointers the blacken of o calls a member function of, mark apart
BlackenCalls(h, o) ==
    IF h[o].kind = "Class" THEN MapValues(h[o].methods) ELSE {}

\* the values of the live part of the operand stack
StackValues(st) == SubSeq(st.data, 1, st.top)

FrameClosures(cs) == [i \in 1..Len(cs) |-> cs[i].closure]

\* ObjectAllocator::_mark_roots: the pointers marked;
\* R = [stack, callstack, open_upvalues, globals]
\* _mark_roots that does not mark the newest allocation
MarkRootsButNewest(A, R) ==
    ValueMark(Range(StackValues(R.stack)))
        \cup Range(FrameClosures(R.callstack))
        \cup Range(R.open_upvalues)
        \cup ValueMark(MapValues(R.globals))

MarkRoots(A, R) ==
    {A.objects[Len(A.objects)]}
        \cup ValueMark(Range(StackValues(R.stack)))
        \cup Range(FrameClosures(R.callstack))
        \cup Range(R.open_upvalues)
        \cup ValueMark(MapValues(R.globals))

\* ObjectAllocator::_trace_references: the objects marked and the grey list
\* when the loop ends, from the objects black and the objects grey
RECURSIVE TraceReferences(_, _, _)
TraceReferences(h, black, grey) ==
    IF grey = {} THEN [marked |-> black, grey_list |-> grey]
    ELSE TraceReferences(h, black \cup grey,
             (UNION {Blacken(h, o) : o \in grey} \cap DOMAIN h)
                 \ (black \cup grey))

\* the level of undefined behaviour of marking from roots, the objects in
\* marked being those marked: every pointer marked or called through is
\* dereferenced
MarkLevel(h, roots, marked) ==
    Only({ IF \E p \in pointers : DerefLevel(h, p) = "wild" THEN "wild"
           ELSE IF \E p \in pointers : DerefLevel(h, p) = "stale" THEN "stale"
           ELSE "no"
         : pointers \in {roots \cup UNION {Blacken(h, o) \cup BlackenCalls(h, o)
                                             : o \in marked}} })

\* Object::mark of the objects traced: their _is_marked is set, and the grey
\* list is as _trace_references leaves it
Mark(A, traced) ==
    [A EXCEPT
        !.heap = [o \in DOMAIN @ |->
                    IF o \in traced.marked
                    THEN [@[o] EXCEPT !.is_marked = TRUE] ELSE @[o]],
        !.grey_list = traced.grey_list]

\* _remove_white_strings that erases no entry
RemoveNoStrings(A) == A

\* ObjectAllocator::_remove_white_strings
RemoveWhiteStrings(A) ==
    [A EXCEPT !.interned_strings =
        MapErase(@, {k \in DOMAIN @ : ~A.heap[@[k].val].is_marked})]

\* the sum of object->size() over the objects of S that are of kind
KindBytes(h, S, kind) == SizeOf(kind) * Cardinality({o \in S : h[o].kind = kind})

\* the sum of object->size() over the objects of S
Bytes(h, S) ==
    KindBytes(h, S, "String") + KindBytes(h, S, "Function")
        + KindBytes(h, S, "UpValue") + KindBytes(h, S, "Closure")
        + KindBytes(h, S, "BoundMethod") + KindBytes(h, S, "Class")
        + KindBytes(h, S, "Instance") + KindBytes(h, S, "NativeFunction")

\* _sweep whose _deallocate leaves _bytes_allocated as it is
SweepKeepsBytes(A) ==
    Only({
      [A EXCEPT
          !.heap = [o \in DOMAIN @ |->
                      IF o \in unreachable THEN [@[o] EXCEPT !.freed = TRUE]
                      ELSE IF o \in Range(A.objects)
                      THEN [@[o] EXCEPT !.is_marked = FALSE]
                      ELSE @[o]],
          !.objects = SelectSeq(@, LAMBDA o : o \notin unreachable)]
    : unreachable \in {{o \in Range(A.objects) : ~A.heap[o].is_marked}} })

\* _sweep that reads is_marked() where it calls unmark()
SweepKeepsMarks(A) ==
    Only({
      [A EXCEPT
          !.heap = [o \in DOMAIN @ |->
                      IF o \in unreachable THEN [@[o] EXCEPT !.freed = TRUE]
                      ELSE @[o]],
          !.objects = SelectSeq(@, LAMBDA o : o \notin unreachable),
          !.bytes_allocated = @ - Bytes(A.heap, unreachable)]
    : unreachable \in {{o \in Range(A.objects) : ~A.heap[o].is_marked}} })

\* ObjectAllocator::_sweep with _deallocate and Object::unmark
\* _sweep that leaves every instance in the list
SweepButInstances(A) ==
    Only({
      [A EXCEPT
          !.heap = [o \in DOMAIN @ |->
                      IF o \in unreachable THEN [@[o] EXCEPT !.freed = TRUE]
                      ELSE IF o \in Range(A.objects)
                      THEN [@[o] EXCEPT !.is_marked = FALSE]
                      ELSE @[o]],
          !.objects = SelectSeq(@, LAMBDA o : o \notin unreachable),
          !.bytes_allocated = @ - Bytes(A.heap, unreachable)]
    : unreachable \in {{o \in Range(A.objects) :
                          ~A.heap[o].is_marked /\ A.heap[o].kind # "Instance"}} })

Sweep(A) ==
    Only({
      [A EXCEPT
          !.heap = [o \in DOMAIN @ |->
                      IF o \in unreachable THEN [@[o] EXCEPT !.freed = TRUE]
                      ELSE IF o \in Range(A.objects)
                      THEN [@[o] EXCEPT !.is_marked = FALSE]
                      ELSE @[o]],
          !.objects = SelectSeq(@, LAMBDA o : o \notin unreachable),
          !.bytes_allocated = @ - Bytes(A.heap, unreachable)]
    : unreachable \in {{o \in Range(A.objects) : ~A.heap[o].is_marked}} })

\* ObjectAllocator::collect_garbage: [A, ub], A the allocator afterwards
CollectGarbage(A, R) ==
    Only({
      Only({
        [A |-> [A2 EXCEPT
                  !.next_collection = A2.bytes_allocated * GrowthFactor],
         ub |-> MarkLevel(A.heap, MarkRoots(A, R), traced.marked)]
      : A2 \in {Sweep(RemoveWhiteStrings(Mark(A, traced)))} })
    : traced \in {TraceReferences(A.heap, {},
                                  MarkRoots(A, R) \cap DOMAIN A.heap)} })

-----------------------------------------------------------------------------
(* History: the reference relation and the objects reachable from the      *)
(* roots, as the properties of the collector state them.                   *)

Refs(h, o) ==
    CASE h[o].kind = "Function" -> ValueMark(Range(h[o].constants))
      [] h[o].kind = "UpValue" -> ValueMark({h[o].closed})
      [] h[o].kind = "Closure" -> {h[o].function} \cup Range(h[o].upvalues)
      [] h[o].kind = "BoundMethod" ->
            ValueMark({h[o].receiver}) \cup {h[o].method}
      [] h[o].kind = "Class" -> MapValues(h[o].methods)
      [] h[o].kind = "Instance" ->
            {h[o].klass} \cup ValueMark(MapValues(h[o].fields))
      [] OTHER -> {}

RECURSIVE ReachFrom(_, _, _)
ReachFrom(h, seen, frontier) ==
    IF frontier = {} THEN seen
    ELSE ReachFrom(h, seen \cup frontier,
             (UNION {Refs(h, o) : o \in frontier} \cap DOMAIN h)
                 \ (seen \cup frontier))

RootSet(A, R) ==
    {A.objects[Len(A.objects)]}
        \cup ValueMark(Range(StackValues(R.stack)))
        \cup {R.callstack[i].closure : i \in DOMAIN R.callstack}
        \cup Range(R.open_upvalues)
        \cup ValueMark(MapValues(R.globals))

Reachable(A, R) == ReachFrom(A.heap, {}, RootSet(A, R) \cap DOMAIN A.heap)

Live(A) == Range(A.objects)

-----
(* object.h / object.cpp: allocation *)

\* whether allocate<T>(collect, ...) runs a collection
ShouldCollect(A, collect) ==
    IF A.stress_gc THEN collect
    ELSE A.bytes_allocated > A.next_collection /\ collect

\* ObjectAllocator::allocate<T>: [A, ptr, ub, collected, before]
Allocate(A, R, collect, obj) ==
    Only({
      IF ShouldCollect(A1, collect)
      THEN Only({ [A |-> c.A, ptr |-> Len(A1.heap), ub |-> c.ub,
                   collected |-> TRUE, before |-> A1]
                : c \in {CollectGarbage(A1, R)} })
      ELSE [A |-> A1, ptr |-> Len(A1.heap), ub |-> "no", collected |-> FALSE,
            before |-> A1]
    : A1 \in {[A EXCEPT !.heap = Append(@, obj),
                        !.bytes_allocated = @ + SizeOf(obj.kind),
                        !.objects = Append(@, Len(A.heap) + 1)]} })

EmptyStack == [data |-> <<>>, top |-> 0, born |-> <<>>, epoch |-> 0]

NoRoots ==
    [stack |-> EmptyStack, callstack |-> <<>>,
     open_upvalues |-> <<>>, globals |-> EmptyMap]

\* allocate_string without the look in _interned_strings
AllocateStringAnew(A, value, collect) ==
    Only({ [A |-> [r.A EXCEPT !.interned_strings =
                              MapPut(@, value, r.ptr, r.ptr)],
            ptr |-> r.ptr]
         : r \in {Allocate(A, NoRoots, FALSE, StringObject(value))} })

\* ObjectAllocator::allocate_string: [A, ptr]
AllocateString(A, value, collect) ==
    IF MapHas(A.interned_strings, value)
    THEN [A |-> A, ptr |-> A.interned_strings[value].val]
    ELSE Only({ [A |-> [r.A EXCEPT !.interned_strings =
                                    MapPut(@, value, r.ptr, r.ptr)],
                 ptr |-> r.ptr]
              : r \in {Allocate(A, NoRoots, FALSE, StringObject(value))} })

\* ObjectAllocator::ObjectAllocator
NewAllocator(stress_gc) ==
    [heap |-> <<>>, objects |-> <<>>, interned_strings |-> EmptyMap,
     grey_list |-> {}, bytes_allocated |-> 0, next_collection |-> InitialNextCollection,
     stress_gc |-> stress_gc]

-----------------------------------------------------------------------------
(* The machine in the middle of an instruction: the variables as a record  *)
(* s, with s.ub the level of undefined behaviour the instruction has met.  *)

Roots(s) ==
    [stack |-> s.stack, callstack |-> s.callstack,
     open_upvalues |-> s.open_upvalues, globals |-> s.globals]

Taint(s, u) == [s EXCEPT !.ub = Worse(@, u)]

\* dereferencing object pointer o
Deref(s, o) == Taint(s, DerefLevel(s.allocator.heap, o))

Obj(s, o) == s.allocator.heap[o]

\* allocate<T>(collect, ...) from the VM; the new object is NewPtr of the result
New(s, collect, obj) ==
    Only({
      [s EXCEPT
          !.allocator = r.A,
          !.ub = Worse(@, r.ub),
          !.gc = IF r.collected
                 THEN Only({ [count |-> @.count + 1,
                              freed |-> freed,
                              lost |-> @.lost \cup
                                  (freed \cap Reachable(r.before, Roots(s)))]
                           : freed \in {Live(r.before) \ Live(r.A)} })
                 ELSE @]
    : r \in {Allocate(s.allocator, Roots(s), collect, obj)} })

NewPtr(s) == Len(s.allocator.heap)

\* Stack::operator[]
StackAt(s, i) ==
    IF i >= 0 /\ i < Len(s.stack.data) THEN s.stack.data[i + 1] ELSE NilVal

\* Stack::top
Top(s) == StackAt(s, s.stack.top - 1)

Peek(s, distance) == StackAt(s, s.stack.top - 1 - distance)

\* _stack[i] = val
StackSet(s, i, val) ==
    IF i < 0 \/ i >= STACK_MAX THEN Taint(s, "wild")
    ELSE IF i < Len(s.stack.data)
    THEN [s EXCEPT !.stack.data[i + 1] = val]
    ELSE [s EXCEPT !.stack.data =
              @ \o [j \in 1..(i - Len(@)) |-> NilVal] \o <<val>>,
                   !.stack.born = @ \o [j \in 1..(i + 1 - Len(@)) |-> 0]]

\* Stack::push: no check against MAX_SIZE
Push(s, val) ==
    [s EXCEPT
        !.stack.data = IF s.stack.top < Len(@)
                       THEN [@ EXCEPT ![s.stack.top + 1] = val]
                       ELSE Append(@, val),
        !.stack.born = IF s.stack.top < Len(@)
                       THEN [@ EXCEPT ![s.stack.top + 1] = s.stack.epoch + 1]
                       ELSE Append(@, s.stack.epoch + 1),
        !.stack.top = @ + 1,
        !.stack.epoch = @ + 1,
        !.ub = Worse(@, IF s.stack.top >= STACK_MAX THEN "stale" ELSE "no")]

\* Stack::pop_by
PopBy(s, n) ==
    IF s.stack.top < n THEN Taint(s, "wild")
    ELSE [s EXCEPT !.stack.top = @ - n]

\* Stack::pop
Pop(s) == PopBy(s, 1)

\* Stack::pop_to
PopTo(s, n) == [s EXCEPT !.stack.top = n]

\* the frame _current_frame points to
Frame(s) == s.callstack[Len(s.callstack)]

FrameFunction(s) == Obj(s, Obj(s, Frame(s).closure).function)

\* VM::_current_chunk
CurrentCode(s) == FrameFunction(s).code

\* the k-th byte after ip
ByteAt(s, k) ==
    LET code == CurrentCode(s)
        i == Frame(s).ip + k
    IN  IF i < Len(code) THEN code[i + 1] ELSE 0

Advance(s, n) ==
    [s EXCEPT !.callstack[Len(s.callstack)].ip = @ + n,
              !.ub = IF Frame(s).ip + n > Len(CurrentCode(s)) THEN "wild" ELSE @]

\* Chunk::get_constant
Constant(s, index) ==
    LET cs == FrameFunction(s).constants
    IN  IF index < Len(cs) THEN cs[index + 1] ELSE NilVal

\* the name of a frame's function in a stack trace
TraceName(s, i) ==
    LET name == Obj(s, Obj(s, s.callstack[i].closure).function).name
    IN  IF name = "" THEN "script" ELSE name \o "()"

\* VM::_runtime_error: the message, then a line per frame, top frame first
RuntimeError(s, message) ==
    LET n == Len(s.callstack)
    IN  [s EXCEPT !.errs = @ \o <<message>> \o
                      [i \in 1..n |-> TraceName(s, n + 1 - i)]]

\* return InterpretResult::RUNTIME_ERROR
Fail(s) == [s EXCEPT !.result = "RUNTIME_ERROR"]

-----------------------------------------------------------------------------
(* value.h / object.h: to_string *)

Digit(d) ==
    CASE d = 0 -> "0" [] d = 1 -> "1" [] d = 2 -> "2" [] d = 3 -> "3"
      [] d = 4 -> "4" [] d = 5 -> "5" [] d = 6 -> "6" [] d = 7 -> "7"
      [] d = 8 -> "8" [] d = 9 -> "9"

RECURSIVE NumToString(_)
NumToString(n) ==
    IF n < 0 THEN "-" \o NumToString(0 - n)
    ELSE IF n < 10 THEN Digit(n)
    ELSE NumToString(n \div 10) \o Digit(n % 10)

\* the virtual Object::to_string
ObjectToString(h, o) ==
    LET obj == h[o] IN
    CASE obj.kind = "String" -> "'" \o obj.value \o "'"
      [] obj.kind = "Function" ->
            IF obj.name = "" THEN "<script>" ELSE "<fn " \o obj.name \o ">"
      [] obj.kind = "UpValue" -> "upvalue"
      [] obj.kind = "Closure" ->
            "<closure " \o (IF h[obj.function].name = "" THEN "script"
                            ELSE h[obj.function].name) \o ">"
      [] obj.kind = "BoundMethod" ->
            "<closure " \o (IF h[h[obj.method].function].name = "" THEN "script"
                            ELSE h[h[obj.method].function].name) \o ">"
      [] obj.kind = "Class" -> "<class " \o obj.name \o ">"
      [] obj.kind = "Instance" -> "<instance " \o h[obj.klass].name \o ">"
      [] obj.kind = "NativeFunction" -> "<native fn>"

\* Value::to_string
ValueToString(h, val) ==
    CASE val.t = "NIL" -> "nil"
      [] val.t = "BOOL" -> IF val.v = 1 THEN "true" ELSE "false"
      [] val.t = "NUMBER" -> NumToString(val.v)
      [] val.t = "OBJECT" -> ObjectToString(h, val.v)

-----------------------------------------------------------------------------
(* vm.cpp: the helpers of VM::_run *)

\* value.as_object()->as<T>(): [s, p]; as_object() does not look at the tag
Cast(s, val, kind) ==
    IF ~is_object(val) THEN [s |-> Taint(s, "wild"), p |-> 0]
    ELSE [s |-> Deref(s, val.v),
          p |-> IF DerefLevel(s.allocator.heap, val.v) = "wild" \/ s.ub = "wild"
                THEN 0 ELSE As(s.allocator.heap, val.v, kind)]

\* the text of the StringObject constant at index
ConstantName(s, index) == Obj(s, Constant(s, index).v).value

\* the StringObject the constant at index is
ConstantString(s, index) == Constant(s, index).v

\* clock_native
clock_native(s, args) == [s |-> s, ret |-> NumberVal(s.now)]

RECURSIVE JoinArgs(_, _)
JoinArgs(h, args) ==
    IF Len(args) = 1 THEN ValueToString(h, args[1])
    ELSE JoinArgs(h, SubSeq(args, 1, Len(args) \div 2)) \o ", "
             \o JoinArgs(h, SubSeq(args, Len(args) \div 2 + 1, Len(args)))

\* print_native: with no argument args.size() - 1 wraps around
print_native(s, args) ==
    IF args = <<>> THEN [s |-> Taint(s, "wild"), ret |-> NilVal]
    ELSE [s |-> [s EXCEPT !.out = Append(@, JoinArgs(s.allocator.heap, args))],
          ret |-> NilVal]

\* VM::_capture_upvalue: [s, p]
CaptureUpvalue(s, slot) ==
    Only({
      IF found # {}
      THEN [s |-> s,
            p |-> s.open_upvalues[CHOOSE i \in found : \A j \in found : i <= j]]
      ELSE Only({ [s |-> [s1 EXCEPT !.open_upvalues = Append(@, NewPtr(s1))],
                   p |-> NewPtr(s1)]
                : s1 \in {New(s, TRUE, UpValueObject(slot,
                              IF slot >= 0 /\ slot < Len(s.stack.born)
                              THEN s.stack.born[slot + 1] ELSE 0))} })
    : found \in {{i \in DOMAIN s.open_upvalues :
                     Obj(s, s.open_upvalues[i]).slot = slot}} })

\* _close_upvalues without upvalue->closed = *upvalue->location
CloseUpvaluesEmpty(s, last) ==
    Only({
      [s EXCEPT
          !.allocator.heap =
              [o \in DOMAIN @ |->
                  IF o \in closing THEN [@[o] EXCEPT !.open = FALSE] ELSE @[o]],
          !.open_upvalues = SelectSeq(@, LAMBDA u : u \notin closing)]
    : closing \in {{s.open_upvalues[i] : i \in
                      {j \in DOMAIN s.open_upvalues :
                           Obj(s, s.open_upvalues[j]).slot >= last}}} })

\* VM::_close_upvalues(&_stack[last])
CloseUpvalues(s, last) ==
    Only({
      [s EXCEPT
          !.allocator.heap =
              [o \in DOMAIN @ |->
                  IF o \in closing
                  THEN [@[o] EXCEPT !.closed = StackAt(s, Obj(s, o).slot),
                                    !.open = FALSE]
                  ELSE @[o]],
          !.open_upvalues = SelectSeq(@, LAMBDA u : u \notin closing)]
    : closing \in {{s.open_upvalues[i] : i \in
                      {j \in DOMAIN s.open_upvalues :
                           Obj(s, s.open_upvalues[j]).slot >= last}}} })

\* *upvalue->location
UpvalueGet(s, u) ==
    IF Obj(s, u).open THEN StackAt(s, Obj(s, u).slot) ELSE Obj(s, u).closed

\* *upvalue->location = val
UpvalueSet(s, u, val) ==
    IF Obj(s, u).open THEN StackSet(s, Obj(s, u).slot, val)
    ELSE [s EXCEPT !.allocator.heap[u].closed = val]

\* _call without the check of _callstack.size()
CallUnbounded(s, closure, arg_count) ==
    Only({
      IF s1.ub = "wild" THEN [s |-> s1, ok |-> FALSE]
      ELSE IF arg_count # Obj(s1, Obj(s1, closure).function).arity
      THEN [s |-> RuntimeError(s1, "Expected "
                        \o NumToString(Obj(s1, Obj(s1, closure).function).arity)
                        \o " arguments but got " \o NumToString(arg_count)
                        \o "."),
            ok |-> FALSE]
      ELSE [s |-> [s1 EXCEPT
                     !.callstack = Append(@,
                         [closure |-> closure, ip |-> 0,
                          offset |-> s1.stack.top - arg_count - 1]),
                     !.stmt = Append(@, [depth |-> 0, end |-> 0 - 1])],
            ok |-> TRUE]
    : s1 \in {Deref(s, closure)} })

\* VM::_call: [s, ok]
Call(s, closure, arg_count) ==
    Only({
      IF s1.ub = "wild" THEN [s |-> s1, ok |-> FALSE]
      ELSE IF arg_count # Obj(s1, Obj(s1, closure).function).arity
      THEN [s |-> RuntimeError(s1, "Expected "
                        \o NumToString(Obj(s1, Obj(s1, closure).function).arity)
                        \o " arguments but got " \o NumToString(arg_count)
                        \o "."),
            ok |-> FALSE]
      ELSE IF Len(s1.callstack) = MAX_FRAMES
      THEN [s |-> RuntimeError(s1, "Stack overflow."), ok |-> FALSE]
      ELSE [s |-> [s1 EXCEPT
                     !.callstack = Append(@,
                         [closure |-> closure, ip |-> 0,
                          offset |-> s1.stack.top - arg_count - 1]),
                     !.stmt = Append(@, [depth |-> 0, end |-> 0 - 1])],
            ok |-> TRUE]
    : s1 \in {Deref(s, closure)} })

\* the native a NativeFunctionObject points to, applied to args: [s, ret]
CallNative(s, native_fn, args) ==
    IF native_fn = "clock" THEN clock_native(s, args)
    ELSE print_native(s, args)

\* VM::_call_value, the ClassObject case: [s, ok]
CallClass(s, klass, arg_count) ==
    Only({
      Only({
        Only({
          IF initializer # 0 THEN Call(s3, initializer, arg_count)
          ELSE IF arg_count # 0
          THEN [s |-> RuntimeError(s3, "Expected 0 arguments but got "
                            \o NumToString(arg_count) \o "."),
                ok |-> FALSE]
          ELSE [s |-> s3, ok |-> TRUE]
        \* klass->methods["init"] inserts the key with a null method
        : s3 \in {[s1 EXCEPT !.allocator.heap[klass].methods =
                                 MapPut(@, "init", initializer, 0)]} })
      : initializer \in {IF MapHas(Obj(s1, klass).methods, "init")
                         THEN Obj(s1, klass).methods["init"].val ELSE 0} })
    : s1 \in {Only({ StackSet(s0, s.stack.top - arg_count - 1,
                              ObjectVal(NewPtr(s0)))
                   : s0 \in {New(s, TRUE, InstanceObject(klass))} })} })

\* VM::_call_value, the NativeFunctionObject case: [s, ok]
CallNativeFunction(s, native, arg_count) ==
    Only({ [s |-> Push(PopBy(r.s, arg_count + 1), r.ret), ok |-> TRUE]
         : r \in {CallNative(s, Obj(s, native).native_fn,
                      [i \in 1..arg_count |->
                          StackAt(s, s.stack.top - arg_count + i - 1)])} })

\* _call_value without the _runtime_error of a callee that cannot be called
CallValueSilent(s, callee, arg_count) ==
    IF ~is_object(callee) THEN [s |-> s, ok |-> FALSE]
    ELSE IF Deref(s, callee.v).ub = "wild"
    THEN [s |-> Deref(s, callee.v), ok |-> FALSE]
    ELSE CASE Obj(s, callee.v).kind = "Closure" ->
                 Call(Deref(s, callee.v), callee.v, arg_count)
           [] Obj(s, callee.v).kind = "Class" ->
                 CallClass(Deref(s, callee.v), callee.v, arg_count)
           [] Obj(s, callee.v).kind = "BoundMethod" ->
                 Call(StackSet(Deref(s, callee.v),
                               s.stack.top - arg_count - 1,
                               Obj(s, callee.v).receiver),
                      Obj(s, callee.v).method, arg_count)
           [] Obj(s, callee.v).kind = "NativeFunction" ->
                 CallNativeFunction(Deref(s, callee.v), callee.v, arg_count)
           [] OTHER -> [s |-> Deref(s, callee.v), ok |-> FALSE]

\* VM::_call_value: [s, ok]
CallValue(s, callee, arg_count) ==
    IF ~is_object(callee)
    THEN [s |-> RuntimeError(s, "Can only call functions and classes."),
          ok |-> FALSE]
    ELSE IF Deref(s, callee.v).ub = "wild"
    THEN [s |-> Deref(s, callee.v), ok |-> FALSE]
    ELSE CASE Obj(s, callee.v).kind = "Closure" ->
                 Call(Deref(s, callee.v), callee.v, arg_count)
           [] Obj(s, callee.v).kind = "Class" ->
                 CallClass(Deref(s, callee.v), callee.v, arg_count)
           [] Obj(s, callee.v).kind = "BoundMethod" ->
                 Call(StackSet(Deref(s, callee.v),
                               s.stack.top - arg_count - 1,
                               Obj(s, callee.v).receiver),
                      Obj(s, callee.v).method, arg_count)
           [] Obj(s, callee.v).kind = "NativeFunction" ->
                 CallNativeFunction(Deref(s, callee.v), callee.v, arg_count)
           [] OTHER ->
                 [s |-> RuntimeError(Deref(s, callee.v),
                                     "Can only call functions and classes."),
                  ok |-> FALSE]

\* VM::_invoke with the receiver an instance and k the class looked in:
\* [s, ok]
InvokeFrom(s, name, arg_count, receiver, k) ==
    IF s.ub = "wild" THEN [s |-> s, ok |-> FALSE]
    ELSE IF ~MapHas(Obj(s, k).methods, name)
    THEN IF k # Obj(s, receiver).klass
         THEN [s |-> RuntimeError(s, "Undefined method '" \o name
                           \o "' for superclass " \o Obj(s, k).name \o "."),
               ok |-> FALSE]
         ELSE IF ~MapHas(Obj(s, receiver).fields, name)
         THEN [s |-> RuntimeError(s, "Undefined property '" \o name \o "'."),
               ok |-> FALSE]
         ELSE CallValue(StackSet(s, s.stack.top - arg_count - 1,
                                 Obj(s, receiver).fields[name].val),
                        Obj(s, receiver).fields[name].val, arg_count)
    ELSE Call(s, Obj(s, k).methods[name].val, arg_count)

\* VM::_invoke: [s, ok]; klass = 0 is the default argument nullptr
Invoke(s, name, arg_count, klass) ==
    Only({
      IF c.s.ub = "wild" THEN [s |-> c.s, ok |-> FALSE]
      ELSE IF c.p = 0
      \* klass ? klass : &receiver->klass reads a member of *receiver
      THEN [s |-> RuntimeError(IF klass = 0 THEN Taint(c.s, "stale") ELSE c.s,
                               "Only instances have methods."),
            ok |-> FALSE]
      ELSE IF klass # 0
      THEN InvokeFrom(Deref(c.s, klass), name, arg_count, c.p, klass)
      ELSE InvokeFrom(Deref(c.s, Obj(c.s, c.p).klass), name, arg_count, c.p,
                      Obj(c.s, c.p).klass)
    : c \in {Cast(s, StackAt(s, s.stack.top - arg_count - 1), "Instance")} })

\* VM::_bind_method: [s, ok]
BindMethod(s, klass, name) ==
    IF Deref(s, klass).ub = "wild" THEN [s |-> Deref(s, klass), ok |-> FALSE]
    ELSE IF ~MapHas(Obj(s, klass).methods, name)
    THEN [s |-> Deref(s, klass), ok |-> FALSE]
    ELSE Only({ [s |-> Push(Pop(s1), ObjectVal(NewPtr(s1))), ok |-> TRUE]
              : s1 \in {New(Deref(s, klass), TRUE,
                            BoundMethodObject(Top(s),
                                Obj(s, klass).methods[name].val))} })

\* _read_short() at the k-th byte after ip
ShortAt(s, k) == ByteAt(s, k) * 256 + ByteAt(s, k + 1)

\* the instruction ends with return InterpretResult::RUNTIME_ERROR unless ok
Check(r) == IF r.ok \/ r.s.ub = "wild" THEN r.s ELSE Fail(r.s)

-----------------------------------------------------------------------------
(* vm.cpp: the cases of the switch in VM::_run.  s is the machine after    *)
(* _read_byte() has read the opcode.                                       *)

ExecReturn(s) ==
    Only({
      IF Len(s.callstack) = 1
      THEN [Pop(s2) EXCEPT !.result = "OK"]
      ELSE Only({ Push(CloseUpvalues(s3, s3.stack.top - 1), Top(s))
                : s3 \in {PopTo(s2, Frame(s).offset)} })
    : s2 \in {[Pop(s) EXCEPT !.callstack = SubSeq(@, 1, Len(@) - 1),
                             !.stmt = SubSeq(@, 1, Len(@) - 1)]} })

ExecConstant(s) == Push(Advance(s, 1), Constant(s, ByteAt(s, 0)))

ExecNegate(s) ==
    IF ~is_number(Top(s))
    THEN Fail(RuntimeError(s, "Operand must be a number."))
    ELSE StackSet(s, s.stack.top - 1, NumberVal(0 - Top(s).v))

\* ADD of two objects; ca and cb are the operands as StringObjects
Concatenate(s, ca, cb) ==
    IF s.ub = "wild" THEN s
    ELSE IF ca # 0 /\ cb # 0
    THEN Only({ Push([PopBy(s, 2) EXCEPT !.allocator = r.A], ObjectVal(r.ptr))
              : r \in {AllocateString(s.allocator,
                           Obj(s, ca).value \o Obj(s, cb).value, TRUE)} })
    ELSE Fail(RuntimeError(s, "Operands to + must both be numbers or strings."))

ExecAdd(s) ==
    IF is_number(Peek(s, 1)) /\ is_number(Top(s))
    THEN Push(PopBy(s, 2), NumberVal(Peek(s, 1).v + Top(s).v))
    ELSE IF is_object(Peek(s, 1)) /\ is_object(Top(s))
    THEN Concatenate(Cast(Cast(s, Peek(s, 1), "String").s, Top(s), "String").s,
                     Cast(s, Peek(s, 1), "String").p,
                     Cast(s, Top(s), "String").p)
    ELSE Fail(RuntimeError(s, "Operands to + must both be numbers or strings."))

\* the BINARY_OP macro; Op(a, b) is the Value of a op b
BinaryOp(s, Op(_, _)) ==
    LET b == Top(s)
        a == Peek(s, 1)
        s1 == PopBy(s, 2)
    IN  IF ~is_number(a) \/ ~is_number(b)
        THEN Fail(RuntimeError(s1, "Operands must be numbers."))
        ELSE Push(s1, Op(a.v, b.v))

ExecSubtract(s) == BinaryOp(s, LAMBDA a, b : NumberVal(a - b))

ExecMultiply(s) == BinaryOp(s, LAMBDA a, b : NumberVal(a * b))

\* the quotient of doubles, here of integers; x / 0 is an infinity
ExecDivide(s) ==
    BinaryOp(s, LAMBDA a, b : NumberVal(IF b = 0 THEN "inf" ELSE a \div b))

ExecTrue(s) == Push(s, BoolVal(TRUE))

ExecFalse(s) == Push(s, BoolVal(FALSE))

ExecNil(s) == Push(s, NilVal)

ExecNot(s) == StackSet(s, s.stack.top - 1, BoolVal(is_falsey(Top(s))))

ExecEqual(s) == Push(PopBy(s, 2), BoolVal(ValueEq(Top(s), Peek(s, 1))))

ExecGreater(s) == BinaryOp(s, LAMBDA a, b : BoolVal(a > b))

ExecLess(s) == BinaryOp(s, LAMBDA a, b : BoolVal(a < b))

ExecPop(s) == Pop(s)

ExecDefineGlobal(s) ==
    LET c == Cast(s, Constant(s, ByteAt(s, 0)), "String")
        s1 == Advance(c.s, 1)
    IN  IF c.p = 0 THEN Taint(c.s, "wild")
        ELSE Pop([s1 EXCEPT !.globals = MapPut(@, Obj(s1, c.p).value, Top(s1), c.p)])

ExecGetGlobal(s) ==
    LET c == Cast(s, Constant(s, ByteAt(s, 0)), "String")
        s1 == Advance(c.s, 1)
        name == Obj(s1, c.p).value
    IN  IF c.p = 0 THEN Taint(c.s, "wild")
        ELSE IF ~MapHas(s1.globals, name)
        THEN Fail(RuntimeError(s1, "Undefined variable '" \o name \o "'."))
        ELSE Push(s1, s1.globals[name].val)

ExecSetGlobal(s) ==
    LET c == Cast(s, Constant(s, ByteAt(s, 0)), "String")
        s1 == Advance(c.s, 1)
        name == Obj(s1, c.p).value
    IN  IF c.p = 0 THEN Taint(c.s, "wild")
        ELSE IF ~MapHas(s1.globals, name)
        THEN Fail(RuntimeError(s1, "Undefined variable '" \o name \o "'."))
        ELSE [s1 EXCEPT !.globals[name].val = Top(s1)]

ExecGetLocal(s) ==
    LET s1 == Advance(s, 1)
    IN  Push(s1, StackAt(s1, ByteAt(s, 0) + Frame(s).offset))

ExecSetLocal(s) ==
    LET s1 == Advance(s, 1)
    IN  StackSet(s1, ByteAt(s, 0) + Frame(s).offset, Top(s1))

ExecJumpIfFalse(s) ==
    IF is_falsey(Top(s)) THEN Advance(s, 2 + ShortAt(s, 0)) ELSE Advance(s, 2)

ExecJumpIfTrue(s) ==
    IF ~is_falsey(Top(s)) THEN Advance(s, 2 + ShortAt(s, 0)) ELSE Advance(s, 2)

ExecJump(s) == Advance(s, 2 + ShortAt(s, 0))

ExecLoop(s) == Advance(s, 2 - ShortAt(s, 0))

ExecCall(s) ==
    LET arg_count == ByteAt(s, 0)
        s1 == Advance(s, 1)
    IN  Check(CallValue(s1, StackAt(s1, s1.stack.top - arg_count - 1), arg_count))

\* the loop of CLOSURE over the (is_local, index) pairs from pair i on:
\* [s, upvalues]
RECURSIVE ReadUpvalues(_, _, _, _)
ReadUpvalues(s, i, upvalue_count, upvalues) ==
    IF i >= upvalue_count \/ s.ub = "wild"
    THEN [s |-> s, upvalues |-> upvalues]
    ELSE IF ByteAt(s, 0) # 0
    THEN Only({ ReadUpvalues(c.s, i + 1, upvalue_count, Append(upvalues, c.p))
              : c \in {CaptureUpvalue(Advance(s, 2),
                                      ByteAt(s, 1) + Frame(s).offset)} })
    \* upvalues[i]: the index operand is read and not used
    ELSE IF i >= Len(Obj(s, Frame(s).closure).upvalues)
    THEN [s |-> Taint(Advance(s, 2), "wild"), upvalues |-> upvalues]
    ELSE ReadUpvalues(Advance(s, 2), i + 1, upvalue_count,
                      Append(upvalues, Obj(s, Frame(s).closure).upvalues[i + 1]))

\* CLOSURE once the function constant is read
MakeClosure(s, function) ==
    Only({
      IF r.s.ub = "wild" THEN r.s
      ELSE Only({ Push(s2, ObjectVal(NewPtr(s2)))
                : s2 \in {New(r.s, TRUE, ClosureObject(function, r.upvalues))} })
    : r \in {ReadUpvalues(s, 0, Obj(s, function).upvalue_count, <<>>)} })

ExecClosure(s) ==
    LET c == Cast(s, Constant(s, ByteAt(s, 0)), "Function")
    IN  IF c.p = 0 THEN Taint(c.s, "wild")
        ELSE MakeClosure(Deref(Advance(c.s, 1), Frame(s).closure), c.p)

\* [s, p]: _current_frame->closure->upvalues[slot]
FrameUpvalue(s, slot) ==
    LET s1 == Deref(s, Frame(s).closure)
        upvalues == Obj(s1, Frame(s).closure).upvalues
    IN  IF s1.ub = "wild" \/ slot >= Len(upvalues)
        THEN [s |-> Taint(s1, "wild"), p |-> 0]
        ELSE [s |-> Deref(s1, upvalues[slot + 1]), p |-> upvalues[slot + 1]]

ExecGetUpvalue(s) ==
    LET u == FrameUpvalue(Advance(s, 1), ByteAt(s, 0))
    IN  IF u.s.ub = "wild" THEN u.s ELSE Push(u.s, UpvalueGet(u.s, u.p))

ExecSetUpvalue(s) ==
    LET u == FrameUpvalue(Advance(s, 1), ByteAt(s, 0))
    IN  IF u.s.ub = "wild" THEN u.s ELSE UpvalueSet(u.s, u.p, Top(u.s))

ExecCloseUpvalue(s) == Pop(CloseUpvalues(s, s.stack.top - 1))

ExecClass(s) ==
    LET c == Cast(s, Constant(s, ByteAt(s, 0)), "String")
    IN  IF c.p = 0 THEN Taint(c.s, "wild")
        ELSE Only({ Push(s1, ObjectVal(NewPtr(s1)))
                  : s1 \in {New(Advance(c.s, 1), TRUE,
                                ClassObject(Obj(c.s, c.p).value))} })

ExecGetProperty(s) ==
    LET i == Cast(s, Top(s), "Instance")
        n == Cast(Advance(i.s, 1), Constant(s, ByteAt(s, 0)), "String")
        name == Obj(n.s, n.p).value
        fields == Obj(n.s, i.p).fields
    IN  IF i.s.ub = "wild" THEN i.s
        ELSE IF n.p = 0 THEN Taint(n.s, "wild")
        ELSE IF i.p = 0
        THEN Fail(RuntimeError(n.s, "Only instances have properties."))
        ELSE IF MapHas(fields, name)
        THEN Push(Pop(n.s), fields[name].val)
        ELSE Only({ IF b.ok \/ b.s.ub = "wild" THEN b.s
                    ELSE Fail(RuntimeError(b.s,
                                  "Undefined property '" \o name \o "'."))
                  : b \in {BindMethod(n.s, Obj(n.s, i.p).klass, name)} })

ExecSetProperty(s) ==
    LET i == Cast(s, Peek(s, 1), "Instance")
        n == Cast(Advance(i.s, 1), Constant(s, ByteAt(s, 0)), "String")
        name == Obj(n.s, n.p).value
        s1 == [n.s EXCEPT !.allocator.heap[i.p].fields =
                              MapPut(@, name, Top(s), n.p)]
    IN  IF i.s.ub = "wild" THEN i.s
        ELSE IF i.p = 0
        THEN Fail(RuntimeError(i.s, "Only instances have fields."))
        ELSE IF n.p = 0 THEN Taint(n.s, "wild")
        ELSE StackSet(Pop(s1), s1.stack.top - 2, Top(s))

ExecMethod(s) ==
    LET n == Cast(s, Constant(s, ByteAt(s, 0)), "String")
        k == Cast(Advance(n.s, 1), Peek(s, 1), "Class")
        m == Cast(k.s, Top(s), "Closure")
    IN  IF n.p = 0 \/ k.p = 0 THEN Taint(k.s, "wild")
        ELSE IF m.s.ub = "wild" THEN m.s
        ELSE Pop([m.s EXCEPT !.allocator.heap[k.p].methods =
                                 MapPut(@, Obj(m.s, n.p).value, m.p, n.p)])

ExecInvoke(s) ==
    LET n == Cast(s, Constant(s, ByteAt(s, 0)), "String")
        arg_count == ByteAt(s, 1)
    IN  IF n.p = 0 THEN Taint(n.s, "wild")
        ELSE Check(Invoke(Advance(n.s, 2), Obj(n.s, n.p).value, arg_count, 0))

\* INHERIT that pops the subclass and copies no method
ExecInheritNothing(s) == Pop(s)

ExecInherit(s) ==
    LET sub == Cast(s, Top(s), "Class")
        super == Cast(sub.s, Peek(s, 1), "Class")
    IN  IF super.s.ub = "wild" THEN super.s
        ELSE IF super.p = 0
        THEN Fail(RuntimeError(super.s, "Superclass must be a class"))
        ELSE IF sub.p = 0 THEN Taint(super.s, "wild")
        ELSE Pop([super.s EXCEPT !.allocator.heap[sub.p].methods =
                                     Obj(super.s, super.p).methods])

ExecGetSuper(s) ==
    LET super == Cast(s, Peek(s, 1), "Class")
        n == Cast(Advance(super.s, 1), Constant(s, ByteAt(s, 0)), "String")
    IN  IF super.s.ub = "wild" THEN super.s
        ELSE IF n.p = 0 \/ super.p = 0 THEN Taint(n.s, "wild")
        ELSE Check(BindMethod(n.s, super.p, Obj(n.s, n.p).value))

ExecSuperInvoke(s) ==
    LET n == Cast(s, Constant(s, ByteAt(s, 0)), "String")
        arg_count == ByteAt(s, 1)
        super == Cast(Pop(Advance(n.s, 2)), Top(s), "Class")
    IN  IF n.p = 0 THEN Taint(n.s, "wild")
        ELSE IF super.s.ub = "wild" THEN super.s
        ELSE Check(Invoke(super.s, Obj(n.s, n.p).value, arg_count, super.p))

-----------------------------------------------------------------------------
(* parser.h: the AST.  A Token is its lexeme; line numbers are left out.   *)
(* An absent optional node is None.                                        *)

None == [node |-> "None"]

ValueNode(value) == [node |-> "Value", value |-> value]

\* a string literal: the parser interns its text with allocate_string
StringNode(text) == [node |-> "Value", value |-> [t |-> "OBJECT", v |-> text]]

VariableExprNode(var) == [node |-> "VariableExpr", var |-> var]

BinExprNode(left, op, right) ==
    [node |-> "BinExpr", left |-> left, op |-> op, right |-> right]

UnaryExprNode(op, right) == [node |-> "UnaryExpr", op |-> op, right |-> right]

GroupExprNode(expr) == [node |-> "GroupExpr", expr |-> expr]

AssignmentExprNode(target, value) ==
    [node |-> "AssignmentExpr", target |-> target, value |-> value]

PropertyExprNode(instance, name) ==
    [node |-> "PropertyExpr", instance |-> instance, name |-> name]

SuperExprNode(method) == [node |-> "SuperExpr", method |-> method]

CallNode(callee, args) == [node |-> "Call", callee |-> callee, args |-> args]

ExprStmtNode(expr) == [node |-> "ExprStmt", expr |-> expr]

BlockStmtNode(statements) == [node |-> "BlockStmt", statements |-> statements]

VarDeclNode(identifier, initializer) ==
    [node |-> "VarDecl", identifier |-> identifier, initializer |-> initializer]

IfStmtNode(condition, then_branch, else_branch) ==
    [node |-> "IfStmt", condition |-> condition, then_branch |-> then_branch,
     else_branch |-> else_branch]

WhileStmtNode(condition, body) ==
    [node |-> "WhileStmt", condition |-> condition, body |-> body]

ReturnStmtNode(value) == [node |-> "ReturnStmt", value |-> value]

FunDeclNode(name, params, statements, method) ==
    [node |-> "FunDecl", name |-> name, params |-> params,
     body |-> BlockStmtNode(statements), method |-> method]

ClassDeclNode(name, superclass, methods) ==
    [node |-> "ClassDecl", name |-> name, superclass |-> superclass,
     methods |-> methods]

-----------------------------------------------------------------------------
(* compiler.cpp.  The compilers in progress are c = [A, fs, err, ub]: A is *)
(* the allocator, fs the chain of Compiler objects from the script's to    *)
(* the current one (a Compiler's _enclosing is the one before it), each    *)
(* [type, function, locals, upvalues, scope_depth, current_class], err the *)
(* Error thrown ("" for none), ub the level of undefined behaviour.  Once  *)
(* an exception is thrown nothing more is emitted.                         *)

Enclosing(c) == Len(c.fs) - 1

ThisCompiler(c) == c.fs[Len(c.fs)]

\* Compiler::Compiler
NewCompiler(type, function, current_class) ==
    [type |-> type, function |-> function,
     locals |-> <<[name |-> IF type \in {"METHOD", "INITIALIZER"}
                            THEN "this" ELSE "",
                   depth |-> 0, is_captured |-> FALSE]>>,
     upvalues |-> <<>>, scope_depth |-> 0, current_class |-> current_class]

NoClass == [present |-> FALSE, has_superclass |-> FALSE]

Throw(c, error) == IF c.err # "" THEN c ELSE [c EXCEPT !.err = error]

\* _current_chunk().size()
ChunkSize(c) == Len(c.A.heap[ThisCompiler(c).function].code)

\* Compiler::_emit_byte
EmitByte(c, byte) ==
    IF c.err # "" THEN c
    ELSE [c EXCEPT !.A.heap[ThisCompiler(c).function].code = Append(@, byte % 256)]

\* Compiler::_emit_bytes
EmitBytes(c, byte_1, byte_2) == EmitByte(EmitByte(c, byte_1), byte_2)

\* _make_constant without the check of the index
MakeConstantUnbounded(c, value) ==
    LET index == Len(c.A.heap[ThisCompiler(c).function].constants)
        c1 == [c EXCEPT !.A.heap[ThisCompiler(c).function].constants =
                            Append(@, value)]
    IN  IF c.err # "" THEN [c |-> c, index |-> 0]
        ELSE [c |-> c1, index |-> index]

\* Compiler::_make_constant with Chunk::add_constant: [c, index]
MakeConstant(c, value) ==
    LET index == Len(c.A.heap[ThisCompiler(c).function].constants)
        c1 == [c EXCEPT !.A.heap[ThisCompiler(c).function].constants =
                            Append(@, value)]
    IN  IF c.err # "" THEN [c |-> c, index |-> 0]
        ELSE IF index > UINT8_MAX
        THEN [c |-> Throw(c1, "ChunkConstantLimitExceeded"), index |-> 0]
        ELSE [c |-> c1, index |-> index]

\* _make_constant(Value{_allocator.allocate_string(lexeme, false)}): [c, index]
MakeStringConstant(c, lexeme) ==
    IF c.err # "" THEN [c |-> c, index |-> 0]
    ELSE Only({ MakeConstant([c EXCEPT !.A = r.A], ObjectVal(r.ptr))
              : r \in {AllocateString(c.A, lexeme, FALSE)} })

\* _emit_bytes(op, _make_constant(string of lexeme))
EmitNamed(c, op, lexeme) ==
    Only({ EmitBytes(k.c, op, k.index) : k \in {MakeStringConstant(c, lexeme)} })

\* Compiler::_emit_return
EmitReturn(c) ==
    IF ThisCompiler(c).type = "INITIALIZER"
    THEN EmitByte(EmitBytes(c, OP_GET_LOCAL, 0), OP_RETURN)
    ELSE EmitBytes(c, OP_NIL, OP_RETURN)

\* Compiler::_emit_jump: [c, offset]
EmitJump(c, instruction) ==
    LET c1 == EmitBytes(EmitByte(c, instruction), 255, 255)
    IN  [c |-> c1, offset |-> ChunkSize(c1) - 2]

\* _patch_jump without the check of the distance
PatchJumpUnbounded(c, offset) ==
    LET jump == (ChunkSize(c) - 2) - offset
    IN  IF c.err # "" THEN c
        ELSE [c EXCEPT !.A.heap[ThisCompiler(c).function].code =
                 [@ EXCEPT ![offset + 1] = (jump \div 256) % 256,
                           ![offset + 2] = jump % 256]]

\* Compiler::_patch_jump
\* _patch_jump that measures the jump from the first operand byte
PatchJumpLate(c, offset) ==
    LET jump == (ChunkSize(c) - 1) - offset
    IN  IF c.err # "" THEN c
        ELSE IF jump > UINT16_MAX THEN Throw(c, "JumpLimitExceeded")
        ELSE [c EXCEPT !.A.heap[ThisCompiler(c).function].code =
                 [@ EXCEPT ![offset + 1] = (jump \div 256) % 256,
                           ![offset + 2] = jump % 256]]

PatchJump(c, offset) ==
    LET jump == (ChunkSize(c) - 2) - offset
    IN  IF c.err # "" THEN c
        ELSE IF jump > UINT16_MAX THEN Throw(c, "JumpLimitExceeded")
        ELSE [c EXCEPT !.A.heap[ThisCompiler(c).function].code =
                 [@ EXCEPT ![offset + 1] = (jump \div 256) % 256,
                           ![offset + 2] = jump % 256]]

\* Compiler::_emit_loop
EmitLoop(c, loop_start) ==
    LET c1 == EmitByte(c, OP_LOOP)
        loop_offset == ChunkSize(c1) - loop_start + 2
    IN  IF loop_offset > UINT16_MAX THEN Throw(c1, "LoopLimitExceeded")
        ELSE EmitBytes(c1, (loop_offset \div 256) % 256, loop_offset % 256)

\* Compiler::_begin_scope
BeginScope(c) ==
    IF c.err # "" THEN c ELSE [c EXCEPT !.fs[Len(c.fs)].scope_depth = @ + 1]

\* the locals the loop of _end_scope pops: those above the last local whose
\* depth is not above the scope depth
PoppedLocals(f) ==
    Only({ SubSeq(f.locals,
                  (IF kept = {} THEN 0
                   ELSE CHOOSE i \in kept : \A j \in kept : j <= i) + 1,
                  Len(f.locals))
         : kept \in {{i \in DOMAIN f.locals :
                         f.locals[i].depth <= f.scope_depth}} })

\* the loop of _end_scope: an instruction per local popped, innermost first
PopLocals(c) ==
    Only({ [c EXCEPT
               !.A.heap[ThisCompiler(c).function].code =
                   @ \o [j \in 1..Len(popped) |->
                            IF popped[Len(popped) + 1 - j].is_captured
                            THEN OP_CLOSE_UPVALUE ELSE OP_POP],
               !.fs[Len(c.fs)].locals = SubSeq(@, 1, Len(@) - Len(popped))]
         : popped \in {PoppedLocals(ThisCompiler(c))} })

\* Compiler::_end_scope
EndScope(c) ==
    IF c.err # "" THEN c
    ELSE PopLocals([c EXCEPT !.fs[Len(c.fs)].scope_depth = @ - 1])

\* _add_local without the check of _local_count
AddLocalUnbounded(c, identifier) ==
    LET f == ThisCompiler(c)
        \* the locals the loop looks at: those above the last one of an
        \* enclosing scope
        stop == {i \in DOMAIN f.locals :
                     f.locals[i].depth # 0 - 1 /\ f.locals[i].depth < f.scope_depth}
        from == IF stop = {} THEN 0 ELSE CHOOSE i \in stop : \A j \in stop : j <= i
    IN  IF c.err # "" THEN c
        ELSE IF \E i \in (from + 1)..Len(f.locals) : f.locals[i].name = identifier
        THEN Throw(c, "RedefinedVariableInSameScope")
        ELSE [c EXCEPT !.fs[Len(c.fs)].locals =
                 Append(@, [name |-> identifier, depth |-> f.scope_depth,
                            is_captured |-> FALSE])]

\* Compiler::_add_local
AddLocal(c, identifier) ==
    LET f == ThisCompiler(c)
        \* the locals the loop looks at: those above the last one of an
        \* enclosing scope
        stop == {i \in DOMAIN f.locals :
                     f.locals[i].depth # 0 - 1 /\ f.locals[i].depth < f.scope_depth}
        from == IF stop = {} THEN 0 ELSE CHOOSE i \in stop : \A j \in stop : j <= i
    IN  IF c.err # "" THEN c
        ELSE IF \E i \in (from + 1)..Len(f.locals) : f.locals[i].name = identifier
        THEN Throw(c, "RedefinedVariableInSameScope")
        ELSE IF Len(f.locals) = MAX_LOCALS
        THEN Throw(c, "LocalVariableLimitExceeded")
        ELSE [c EXCEPT !.fs[Len(c.fs)].locals =
                 Append(@, [name |-> identifier, depth |-> f.scope_depth,
                            is_captured |-> FALSE])]

\* Compiler::_define_variable
DefineVariable(c, identifier) ==
    IF c.err # "" THEN c
    ELSE IF ThisCompiler(c).scope_depth = 0
    THEN EmitNamed(c, OP_DEFINE_GLOBAL, identifier)
    ELSE AddLocal(c, identifier)

\* Compiler::_resolve_local of the compiler f: the slot, or -1
ResolveLocal(f, name) ==
    LET hits == {i \in DOMAIN f.locals : f.locals[i].name = name}
    IN  IF hits = {} THEN 0 - 1
        ELSE (CHOOSE i \in hits : \A j \in hits : j <= i) - 1

\* Compiler::_add_upvalue of the compiler at level: [c, index]
AddUpvalue(c, level, index, is_local) ==
    LET f == c.fs[level]
        upvalue_count == c.A.heap[f.function].upvalue_count
        hits == {i \in 1..upvalue_count :
                     f.upvalues[i].index = index % 256
                         /\ f.upvalues[i].is_local = is_local}
    IN  IF hits # {}
        THEN [c |-> c, index |-> (CHOOSE i \in hits : \A j \in hits : i <= j) - 1]
        ELSE IF upvalue_count > MAX_UPVALUES
        THEN [c |-> Throw(c, "UpvalueLimitExceeded"), index |-> 0 - 1]
        ELSE [c |-> [c EXCEPT
                       !.fs[level].upvalues =
                           Append(@, [index |-> index % 256, is_local |-> is_local]),
                       !.A.heap[f.function].upvalue_count = @ + 1,
                       !.ub = IF upvalue_count = MAX_UPVALUES THEN "stale" ELSE @],
              index |-> upvalue_count]

\* Compiler::_resolve_upvalue of the compiler at level: [c, index]
RECURSIVE ResolveUpvalue(_, _, _)
ResolveUpvalue(c, level, name) ==
    IF level = 1 THEN [c |-> c, index |-> 0 - 1]
    ELSE IF ResolveLocal(c.fs[level - 1], name) # 0 - 1
    THEN AddUpvalue([c EXCEPT !.fs[level - 1].locals[
                                  ResolveLocal(c.fs[level - 1], name) + 1
                              ].is_captured = TRUE],
                    level, ResolveLocal(c.fs[level - 1], name), TRUE)
    ELSE Only({ IF upvalue.index # 0 - 1
                THEN AddUpvalue(upvalue.c, level, upvalue.index, FALSE)
                ELSE [c |-> c, index |-> 0 - 1]
              : upvalue \in {ResolveUpvalue(c, level - 1, name)} })

\* the opcode and operand for a variable: get or set by where name resolves
NamedVariable(c, name, local_op, upvalue_op, global_op) ==
    IF c.err # "" THEN c
    ELSE IF ResolveLocal(ThisCompiler(c), name) # 0 - 1
    THEN EmitBytes(c, local_op, ResolveLocal(ThisCompiler(c), name))
    ELSE Only({ IF up.index # 0 - 1 THEN EmitBytes(up.c, upvalue_op, up.index)
                ELSE EmitNamed(up.c, global_op, name)
              : up \in {ResolveUpvalue(c, Len(c.fs), name)} })

\* Compiler::_compile_named_variable
CompileNamedVariable(c, name) ==
    IF c.err # "" THEN c
    ELSE IF name = "this" /\ ~ThisCompiler(c).current_class.present
    THEN Throw(c, "ThisOutsideClass")
    ELSE NamedVariable(c, name, OP_GET_LOCAL, OP_GET_UPVALUE, OP_GET_GLOBAL)

RECURSIVE CompileNode(_, _)

\* std::visit(*this, *node) for each node of a list
RECURSIVE CompileNodes(_, _)
CompileNodes(c, nodes) ==
    IF nodes = <<>> \/ c.err # "" THEN c
    ELSE IF Len(nodes) = 1 THEN CompileNode(c, nodes[1])
    ELSE Only({ CompileNodes(c1, SubSeq(nodes, Len(nodes) \div 2 + 1, Len(nodes)))
              : c1 \in {CompileNodes(c, SubSeq(nodes, 1, Len(nodes) \div 2))} })

RECURSIVE DefineVariables(_, _)
DefineVariables(c, identifiers) ==
    IF identifiers = <<>> THEN c
    ELSE IF Len(identifiers) = 1 THEN DefineVariable(c, identifiers[1])
    ELSE Only({ DefineVariables(c1, SubSeq(identifiers,
                                           Len(identifiers) \div 2 + 1,
                                           Len(identifiers)))
              : c1 \in {DefineVariables(c, SubSeq(identifiers, 1,
                                                  Len(identifiers) \div 2))} })

\* Compiler::operator()(const ValueNode&)
CompileValue(c, n) ==
    CASE n.value.t = "OBJECT" -> EmitNamed(c, OP_CONSTANT, n.value.v)
      [] n.value.t = "NUMBER" ->
            LET k == MakeConstant(c, n.value)
            IN  EmitBytes(k.c, OP_CONSTANT, k.index)
      [] n.value.t = "BOOL" ->
            EmitByte(c, IF n.value.v = 1 THEN OP_TRUE ELSE OP_FALSE)
      [] n.value.t = "NIL" -> EmitByte(c, OP_NIL)

\* the emits of the switch in Compiler::operator()(const BinExprNode&)
EmitBinary(c, op) ==
    CASE op = "+" -> EmitByte(c, OP_ADD)
      [] op = "-" -> EmitByte(c, OP_SUBTRACT)
      [] op = "*" -> EmitByte(c, OP_MULTIPLY)
      [] op = "/" -> EmitByte(c, OP_DIVIDE)
      [] op = "==" -> EmitByte(c, OP_EQUAL)
      [] op = "!=" -> EmitBytes(c, OP_EQUAL, OP_NOT)
      [] op = ">" -> EmitByte(c, OP_GREATER)
      [] op = "<" -> EmitByte(c, OP_LESS)
      [] op = ">=" -> EmitBytes(c, OP_LESS, OP_NOT)
      [] op = "<=" -> EmitBytes(c, OP_GREATER, OP_NOT)

\* Compiler::_compile_and_expression / _compile_or_expression
CompileLogical(c, n, instruction) ==
    LET j == EmitJump(c, instruction)
    IN  PatchJump(CompileNode(EmitByte(j.c, OP_POP), n.right), j.offset)

\* Compiler::operator()(const BinExprNode&)
CompileBinExpr(c, n) ==
    LET c1 == CompileNode(c, n.left)
    IN  IF n.op = "and" THEN CompileLogical(c1, n, OP_JUMP_IF_FALSE)
        ELSE IF n.op = "or" THEN CompileLogical(c1, n, OP_JUMP_IF_TRUE)
        ELSE EmitBinary(CompileNode(c1, n.right), n.op)

\* Compiler::operator()(const UnaryExprNode&)
CompileUnaryExpr(c, n) ==
    EmitByte(CompileNode(c, n.right), IF n.op = "-" THEN OP_NEGATE ELSE OP_NOT)

\* Compiler::operator()(const PropertyExprNode&)
CompilePropertyExpr(c, n) ==
    EmitNamed(CompileNode(c, n.instance), OP_GET_PROPERTY, n.name)

\* Compiler::operator()(const ExprStmtNode&); the range of the statement's
\* code is recorded in the function as history
CompileExprStmt(c, n) ==
    Only({ IF c1.err # "" THEN c1
           ELSE [c1 EXCEPT !.A.heap[ThisCompiler(c).function].exprstmts =
                               @ \cup {<<ChunkSize(c), ChunkSize(c1)>>}]
         : c1 \in {EmitByte(CompileNode(c, n.expr), OP_POP)} })

\* Compiler::operator()(const IfStmtNode&) from the jump over the else branch on
CompileElse(c, n, then_jump) ==
    Only({ PatchJump(IF n.else_branch.node # "None"
                     THEN CompileNode(EmitByte(PatchJump(else_jump.c, then_jump),
                                               OP_POP),
                                      n.else_branch)
                     ELSE EmitByte(PatchJump(else_jump.c, then_jump), OP_POP),
                     else_jump.offset)
         : else_jump \in {EmitJump(c, OP_JUMP)} })

\* Compiler::operator()(const IfStmtNode&)
CompileIfStmt(c, n) ==
    Only({ CompileElse(CompileNode(EmitByte(then_jump.c, OP_POP), n.then_branch),
                       n, then_jump.offset)
         : then_jump \in {EmitJump(CompileNode(c, n.condition),
                                   OP_JUMP_IF_FALSE)} })

\* Compiler::operator()(const WhileStmtNode&)
CompileWhileStmt(c, n) ==
    Only({ EmitByte(PatchJump(EmitLoop(CompileNode(EmitByte(exit_jump.c, OP_POP),
                                                   n.body),
                                       ChunkSize(c)),
                              exit_jump.offset),
                    OP_POP)
         : exit_jump \in {EmitJump(CompileNode(c, n.condition),
                                   OP_JUMP_IF_FALSE)} })

\* Compiler::operator()(const ReturnStmtNode&)
CompileReturnStmt(c, n) ==
    IF ThisCompiler(c).type = "SCRIPT" THEN Throw(c, "ReturnOutsideFunction")
    ELSE IF n.value.node # "None" /\ ThisCompiler(c).type = "INITIALIZER"
    THEN Throw(c, "ReturnInsideInitializer")
    ELSE IF n.value.node # "None" THEN EmitByte(CompileNode(c, n.value), OP_RETURN)
    ELSE EmitReturn(c)

\* Compiler::operator()(const BlockStmtNode&)
CompileBlockStmt(c, n) == EndScope(CompileNodes(BeginScope(c), n.statements))

\* Compiler::operator()(const VarDeclNode&)
CompileVarDecl(c, n) ==
    DefineVariable(IF n.initializer.node # "None" THEN CompileNode(c, n.initializer)
                   ELSE EmitByte(c, OP_NIL),
                   n.identifier)

\* Compiler::operator()(const AssignmentExprNode&)
CompileAssignmentExpr(c, n) ==
    IF n.target.node # "VariableExpr"
    THEN EmitNamed(CompileNode(CompileNode(c, n.target.instance), n.value),
                   OP_SET_PROPERTY, n.target.name)
    ELSE NamedVariable(CompileNode(c, n.value), n.target.var,
                       OP_SET_LOCAL, OP_SET_UPVALUE, OP_SET_GLOBAL)

\* the (is_local, index) pairs after CLOSURE: _emit_byte of each in turn
EmitUpvalues(c, upvalues) ==
    IF c.err # "" THEN c
    ELSE [c EXCEPT !.A.heap[ThisCompiler(c).function].code =
             @ \o [k \in 1..(2 * Len(upvalues)) |->
                      IF k % 2 = 1
                      THEN IF upvalues[(k + 1) \div 2].is_local THEN 1 ELSE 0
                      ELSE upvalues[k \div 2].index % 256]]

\* Compiler::_compile_function, run by the compiler just put on the chain
CompileFunction(c, name, params, declarations) ==
    Only({ EmitReturn(CompileNodes(
               DefineVariables(
                   BeginScope([c EXCEPT !.A = r.A,
                                        !.fs[Len(c.fs)].function = r.ptr]),
                   params),
               declarations))
         : r \in {Allocate(c.A, NoRoots, FALSE,
                           FunctionObject(name, Len(params) % 256))} })

\* Compiler::operator()(const FunDeclNode&) once func_compiler, the last of
\* c.fs, has compiled the function
EmitClosure(c, n) ==
    Only({ Only({ IF n.method THEN EmitNamed(c3, OP_METHOD, n.name)
                  ELSE DefineVariable(c3, n.name)
                : c3 \in {EmitUpvalues(EmitBytes(k.c, OP_CLOSURE, k.index),
                              SubSeq(ThisCompiler(c).upvalues, 1,
                                     c.A.heap[ThisCompiler(c).function]
                                         .upvalue_count))} })
         : k \in {MakeConstant([c EXCEPT !.fs = SubSeq(@, 1, Len(@) - 1)],
                               ObjectVal(ThisCompiler(c).function))} })

\* Compiler::operator()(const FunDeclNode&)
CompileFunDecl(c, n) ==
    Only({ IF c1.err # "" THEN c1 ELSE EmitClosure(c1, n)
         : c1 \in {CompileFunction(
                       [c EXCEPT !.fs = Append(@,
                           NewCompiler(IF n.method /\ n.name = "init"
                                       THEN "INITIALIZER"
                                       ELSE IF n.method THEN "METHOD"
                                       ELSE "FUNCTION",
                                       0, ThisCompiler(c).current_class))],
                       n.name, n.params, n.body.statements)} })

\* Compiler::operator()(const ClassDeclNode&): the superclass clause, c1 the
\* compiler after the class is defined
CompileSuperclass(c1, n) ==
    IF n.superclass = "" THEN c1
    ELSE IF n.superclass = n.name THEN Throw(c1, "CyclicInheritance")
    ELSE Only({ IF c2.err # "" THEN c2
                ELSE [c2 EXCEPT !.fs[Len(c2.fs)].current_class.has_superclass =
                                    TRUE]
              : c2 \in {EmitByte(
                            CompileNamedVariable(
                                CompileNamedVariable(
                                    DefineVariable(BeginScope(c1), "super"),
                                    n.superclass),
                                n.name),
                            OP_INHERIT)} })

\* Compiler::operator()(const ClassDeclNode&): the methods and the end of
\* the declaration, prev the current class before it
CompileMethods(c3, n, prev) ==
    Only({ Only({ IF c5.err # "" THEN c5
                  ELSE [c5 EXCEPT !.fs[Len(c5.fs)].current_class = prev]
                : c5 \in {IF ThisCompiler(c4).current_class.has_superclass
                          THEN EndScope(c4) ELSE c4} })
         : c4 \in {EmitByte(CompileNodes(CompileNamedVariable(c3, n.name),
                                         n.methods),
                            OP_POP)} })

\* Compiler::operator()(const ClassDeclNode&)
CompileClassDecl(c, n) ==
    CompileMethods(
        CompileSuperclass(
            DefineVariable(
                EmitNamed([c EXCEPT !.fs[Len(c.fs)].current_class =
                               [present |-> TRUE, has_superclass |-> FALSE]],
                          OP_CLASS, n.name),
                n.name),
            n),
        n, ThisCompiler(c).current_class)

\* Compiler::operator()(const SuperExprNode&)
CompileSuperExpr(c, n) ==
    IF ~ThisCompiler(c).current_class.present
    THEN Throw(c, "SuperUsedOutsideClass")
    ELSE IF ~ThisCompiler(c).current_class.has_superclass
    THEN Throw(c, "SuperUsedInClassWithNoSuperClass")
    ELSE Only({ EmitBytes(CompileNamedVariable(
                              CompileNamedVariable(k.c, "super"), "this"),
                          OP_GET_SUPER, k.index)
              : k \in {MakeStringConstant(c, n.method)} })

\* Compiler::operator()(const CallNode&)
CompileCall(c, n) ==
    IF n.callee.node = "PropertyExpr"
    THEN EmitByte(EmitNamed(CompileNodes(CompileNode(c, n.callee.instance),
                                         n.args),
                            OP_INVOKE, n.callee.name),
                  Len(n.args))
    ELSE IF n.callee.node = "SuperExpr"
    THEN Only({ EmitByte(EmitBytes(CompileNamedVariable(k.c, "super"),
                                   OP_SUPER_INVOKE, k.index),
                         Len(n.args))
              : k \in {MakeStringConstant(CompileNodes(c, n.args),
                                          n.callee.method)} })
    ELSE EmitBytes(CompileNodes(CompileNode(c, n.callee), n.args),
                   OP_CALL, Len(n.args))

CompileNode(c, n) ==
    IF c.err # "" THEN c
    ELSE CASE n.node = "Value" -> CompileValue(c, n)
           [] n.node = "VariableExpr" -> CompileNamedVariable(c, n.var)
           [] n.node = "BinExpr" -> CompileBinExpr(c, n)
           [] n.node = "UnaryExpr" -> CompileUnaryExpr(c, n)
           [] n.node = "GroupExpr" -> CompileNode(c, n.expr)
           [] n.node = "AssignmentExpr" -> CompileAssignmentExpr(c, n)
           [] n.node = "PropertyExpr" -> CompilePropertyExpr(c, n)
           [] n.node = "SuperExpr" -> CompileSuperExpr(c, n)
           [] n.node = "Call" -> CompileCall(c, n)
           [] n.node = "ExprStmt" -> CompileExprStmt(c, n)
           [] n.node = "BlockStmt" -> CompileBlockStmt(c, n)
           [] n.node = "VarDecl" -> CompileVarDecl(c, n)
           [] n.node = "IfStmt" -> CompileIfStmt(c, n)
           [] n.node = "WhileStmt" -> CompileWhileStmt(c, n)
           [] n.node = "ReturnStmt" -> CompileReturnStmt(c, n)
           [] n.node = "FunDecl" -> CompileFunDecl(c, n)
           [] n.node = "ClassDecl" -> CompileClassDecl(c, n)

\* Compiler::compile: [A, script, err, ub]
CompileScript(A, declarations) ==
    Only({ Only({ [A |-> c1.A, script |-> r.ptr, err |-> c1.err, ub |-> c1.ub]
                : c1 \in {EmitReturn(CompileNodes(
                              [A |-> r.A,
                               fs |-> <<NewCompiler("SCRIPT", r.ptr, NoClass)>>,
                               err |-> "", ub |-> "no"],
                              declarations))} })
         : r \in {Allocate(A, NoRoots, FALSE, FunctionObject("", 0))} })

-----------------------------------------------------------------------------
(* The programs run: what Parser::parse returns for the source in the      *)
(* comment.                                                                *)

Num(n) == ValueNode(NumberVal(n))

Var(name) == VariableExprNode(name)

Bin(left, op, right) == BinExprNode(left, op, right)

Assign(name, value) == ExprStmtNode(AssignmentExprNode(Var(name), value))

CallPrint(args) == ExprStmtNode(CallNode(Var("print"), args))

Fun(name, params, statements) == FunDeclNode(name, params, statements, FALSE)

Method(name, params, statements) == FunDeclNode(name, params, statements, TRUE)

\* var a = 1 + 2 * 3;  a = a - 1;
\* print(a / 2, -a, !true, a > 1, a < 1, a == 6, a != 6, a >= 1, a <= 1, nil, "s");
\* var b = true and false;  var c = nil or 1;
\* if (a > 3) { var l = 1; l = l + 1; print(l); } else a = 1;
\* while (a < 8) a = a + 1;
\* print(clock());
ProgArith ==
    << VarDeclNode("a", Bin(Num(1), "+", Bin(Num(2), "*", Num(3)))),
       Assign("a", Bin(Var("a"), "-", Num(1))),
       CallPrint(<< Bin(Var("a"), "/", Num(2)),
                UnaryExprNode("-", Var("a")),
                UnaryExprNode("!", ValueNode(BoolVal(TRUE))),
                Bin(Var("a"), ">", Num(1)), Bin(Var("a"), "<", Num(1)),
                Bin(Var("a"), "==", Num(6)), Bin(Var("a"), "!=", Num(6)),
                Bin(Var("a"), ">=", Num(1)), Bin(Var("a"), "<=", Num(1)),
                ValueNode(NilVal), StringNode("s") >>),
       VarDeclNode("b", Bin(ValueNode(BoolVal(TRUE)), "and", ValueNode(BoolVal(FALSE)))),
       VarDeclNode("c", Bin(ValueNode(NilVal), "or", Num(1))),
       IfStmtNode(Bin(Var("a"), ">", Num(3)),
                  BlockStmtNode(<< VarDeclNode("l", Num(1)),
                                   Assign("l", Bin(Var("l"), "+", Num(1))),
                                   CallPrint(<<Var("l")>>) >>),
                  Assign("a", Num(1))),
       WhileStmtNode(Bin(Var("a"), "<", Num(8)),
                     Assign("a", Bin(Var("a"), "+", Num(1)))),
       CallPrint(<<CallNode(Var("clock"), <<>>)>>) >>

\* fun makeCounter() { var i = 0; fun count() { i = i + 1; return i; } return count; }
\* var c1 = makeCounter();  var c2 = makeCounter();
\* var a = c1(); var b = c1(); var c = c2(); var d = c1(); print(a, b, c, d);
ProgCounter ==
    << Fun("makeCounter", <<>>,
           << VarDeclNode("i", Num(0)),
              Fun("count", <<>>,
                  << Assign("i", Bin(Var("i"), "+", Num(1))),
                     ReturnStmtNode(Var("i")) >>),
              ReturnStmtNode(Var("count")) >>),
       VarDeclNode("c1", CallNode(Var("makeCounter"), <<>>)),
       VarDeclNode("c2", CallNode(Var("makeCounter"), <<>>)),
       VarDeclNode("a", CallNode(Var("c1"), <<>>)),
       VarDeclNode("b", CallNode(Var("c1"), <<>>)),
       VarDeclNode("c", CallNode(Var("c2"), <<>>)),
       VarDeclNode("d", CallNode(Var("c1"), <<>>)),
       CallPrint(<<Var("a"), Var("b"), Var("c"), Var("d")>>) >>

\* var get; var set;
\* { var a = 1; fun g() { return a; } fun s() { a = 2; }
\*   get = g; set = s; set(); print(get()); print(a); }
\* print(get());
ProgShared ==
    << VarDeclNode("get", None), VarDeclNode("set", None),
       BlockStmtNode(
           << VarDeclNode("a", Num(1)),
              Fun("g", <<>>, <<ReturnStmtNode(Var("a"))>>),
              Fun("s", <<>>, <<Assign("a", Num(2))>>),
              Assign("get", Var("g")), Assign("set", Var("s")),
              ExprStmtNode(CallNode(Var("set"), <<>>)),
              CallPrint(<<CallNode(Var("get"), <<>>)>>),
              CallPrint(<<Var("a")>>) >>),
       CallPrint(<<CallNode(Var("get"), <<>>)>>) >>

\* var h; fun foo() {}
\* { var a = 0; { fun g() { return a; } h = g; }
\*   foo(); a = 5; print(h()); fun k() { return a; } print(k()); }
ProgEarlyClose ==
    << VarDeclNode("h", None), Fun("foo", <<>>, <<>>),
       BlockStmtNode(
           << VarDeclNode("a", Num(0)),
              BlockStmtNode(<< Fun("g", <<>>, <<ReturnStmtNode(Var("a"))>>),
                               Assign("h", Var("g")) >>),
              ExprStmtNode(CallNode(Var("foo"), <<>>)),
              Assign("a", Num(5)),
              CallPrint(<<CallNode(Var("h"), <<>>)>>),
              Fun("k", <<>>, <<ReturnStmtNode(Var("a"))>>),
              CallPrint(<<CallNode(Var("k"), <<>>)>>) >>) >>

\* fun outer() { var a = 1; var b = 2;
\*   fun mid() { a; fun inner() { return b; } return inner; } return mid; }
\* print(outer()()());
ProgTransitive ==
    << Fun("outer", <<>>,
           << VarDeclNode("a", Num(1)), VarDeclNode("b", Num(2)),
              Fun("mid", <<>>,
                  << ExprStmtNode(Var("a")),
                     Fun("inner", <<>>, <<ReturnStmtNode(Var("b"))>>),
                     ReturnStmtNode(Var("inner")) >>),
              ReturnStmtNode(Var("mid")) >>),
       CallPrint(<<CallNode(CallNode(CallNode(Var("outer"), <<>>), <<>>), <<>>)>>) >>

This == VariableExprNode("this")

Get(instance, name) == PropertyExprNode(instance, name)

Call0(callee) == CallNode(callee, <<>>)

\* class A { init(x) { this.x = x; } get() { return this.x; } }
\* class B < A { get() { return super.get() + 1; } }
\* var b = B(1);  print(b.get());
\* var m = b.get;  print(m());
\* b.f = m;  print(b.f());
ProgClasses ==
    << ClassDeclNode("A", "",
           << Method("init", <<"x">>,
                  <<ExprStmtNode(AssignmentExprNode(Get(This, "x"), Var("x")))>>),
              Method("get", <<>>, <<ReturnStmtNode(Get(This, "x"))>>) >>),
       ClassDeclNode("B", "A",
           << Method("get", <<>>,
                  <<ReturnStmtNode(Bin(Call0(SuperExprNode("get")), "+", Num(1)))>>) >>),
       VarDeclNode("b", CallNode(Var("B"), <<Num(1)>>)),
       CallPrint(<<Call0(Get(Var("b"), "get"))>>),
       VarDeclNode("m", Get(Var("b"), "get")),
       CallPrint(<<Call0(Var("m"))>>),
       ExprStmtNode(AssignmentExprNode(Get(Var("b"), "f"), Var("m"))),
       CallPrint(<<Call0(Get(Var("b"), "f"))>>) >>

\* class A { m() { return 1; } }
\* class B < A {
\*   t() { super.m(); { var a = 1; var b = 2; fun g() { return b; } } return 7; }
\*   u() { super.m; return 8; } }
\* var b = B();  print(b.t());  print(b.u());
ProgSuperStmt ==
    << ClassDeclNode("A", "", <<Method("m", <<>>, <<ReturnStmtNode(Num(1))>>)>>),
       ClassDeclNode("B", "A",
           << Method("t", <<>>,
                  << ExprStmtNode(Call0(SuperExprNode("m"))),
                     BlockStmtNode(
                         << VarDeclNode("a", Num(1)), VarDeclNode("b", Num(2)),
                            Fun("g", <<>>, <<ReturnStmtNode(Var("b"))>>) >>),
                     ReturnStmtNode(Num(7)) >>),
              Method("u", <<>>,
                  << ExprStmtNode(SuperExprNode("m")),
                     ReturnStmtNode(Num(8)) >>) >>),
       VarDeclNode("b", Call0(Var("B"))),
       CallPrint(<<Call0(Get(Var("b"), "t"))>>),
       CallPrint(<<Call0(Get(Var("b"), "u"))>>) >>

\* var a = "x" + "y";  print(a == "xy");
\* { var t = "p" + "q"; }
\* fun g() {}
\* var d = "p" + "q";  var e = "p" + "q";  print(d == e);
ProgStrings ==
    << VarDeclNode("a", Bin(StringNode("x"), "+", StringNode("y"))),
       CallPrint(<<Bin(Var("a"), "==", StringNode("xy"))>>),
       BlockStmtNode(<<VarDeclNode("t", Bin(StringNode("p"), "+", StringNode("q")))>>),
       Fun("g", <<>>, <<>>),
       VarDeclNode("d", Bin(StringNode("p"), "+", StringNode("q"))),
       VarDeclNode("e", Bin(StringNode("p"), "+", StringNode("q"))),
       CallPrint(<<Bin(Var("d"), "==", Var("e"))>>) >>

\* var x = <value>;  x();  print(0);
ProgCallValue(value) ==
    << VarDeclNode("x", value), ExprStmtNode(Call0(Var("x"))),
       CallPrint(<<Num(0)>>) >>

\* class A {}  var x = A();  x();  print(0);
ProgCallInstance ==
    <<ClassDeclNode("A", "", <<>>)>> \o ProgCallValue(Call0(Var("A")))

\* fun f() { var x = 1; x(2); }  f();  print(0);
ProgCallLocal ==
    << Fun("f", <<>>,
           << VarDeclNode("x", Num(1)),
              ExprStmtNode(CallNode(Var("x"), <<Num(2)>>)) >>),
       ExprStmtNode(Call0(Var("f"))),
       CallPrint(<<Num(0)>>) >>

\* fun f() { f(); }  f();
ProgOverflow ==
    << Fun("f", <<>>, <<ExprStmtNode(Call0(Var("f")))>>),
       ExprStmtNode(Call0(Var("f"))) >>

\* fun f(n) { if (n == 0) f(); else f(n - 1); }  f(MAX_FRAMES - 2);
\* the call f() is made with MAX_FRAMES frames active
ProgArity ==
    << Fun("f", <<"n">>,
           << IfStmtNode(Bin(Var("n"), "==", Num(0)),
                         ExprStmtNode(Call0(Var("f"))),
                         ExprStmtNode(CallNode(Var("f"),
                                               <<Bin(Var("n"), "-", Num(1))>>))) >>),
       ExprStmtNode(CallNode(Var("f"), <<Num(MAX_FRAMES - 2)>>)) >>

\* the n declarations var l1; ... var ln;
VarDecls(n) == [i \in 1..n |-> VarDeclNode("l" \o NumToString(i), None)]

\* fun f(n) { var l1; ... var l254; if (n == 0) 0; else f(n - 1); }
\* { var l1; ... var l255; f(MAX_FRAMES - 2); }
\* every frame holds MAX_LOCALS slots, and MAX_FRAMES frames are active when
\* n == 0 is evaluated
ProgDeep ==
    << Fun("f", <<"n">>,
           VarDecls(MAX_LOCALS - 2)
               \o << IfStmtNode(Bin(Var("n"), "==", Num(0)),
                                ExprStmtNode(Num(0)),
                                ExprStmtNode(CallNode(Var("f"),
                                    <<Bin(Var("n"), "-", Num(1))>>))) >>),
       BlockStmtNode(
           VarDecls(MAX_LOCALS - 1)
               \o <<ExprStmtNode(CallNode(Var("f"), <<Num(MAX_FRAMES - 2)>>))>>) >>

\* class A {}  var a = A();  var b = A();  print(1);
ProgNoInit ==
    << ClassDeclNode("A", "", <<>>),
       VarDeclNode("a", Call0(Var("A"))),
       VarDeclNode("b", Call0(Var("A"))),
       CallPrint(<<Num(1)>>) >>

\* return 1;
ProgReturnOutside == <<ReturnStmtNode(Num(1))>>

\* var x = <value>;  x.f;  print(0);
ProgGetProperty(value) ==
    << VarDeclNode("x", value), ExprStmtNode(Get(Var("x"), "f")),
       CallPrint(<<Num(0)>>) >>

\* var x = <value>;  x.f = 1;  print(0);
ProgSetProperty(value) ==
    << VarDeclNode("x", value),
       ExprStmtNode(AssignmentExprNode(Get(Var("x"), "f"), Num(1))),
       CallPrint(<<Num(0)>>) >>

\* var x = <value>;  x.f();  print(0);
ProgInvoke(value) ==
    << VarDeclNode("x", value), ExprStmtNode(Call0(Get(Var("x"), "f"))),
       CallPrint(<<Num(0)>>) >>

\* var x = <value>;  class B < x {}  print(0);
ProgInherit(value) ==
    << VarDeclNode("x", value), ClassDeclNode("B", "x", <<>>),
       CallPrint(<<Num(0)>>) >>

\* class A {}  class B < A { t() { return <expr>; } }  B().t();  print(0);
ProgSuper(expr) ==
    << ClassDeclNode("A", "", <<>>),
       ClassDeclNode("B", "A", <<Method("t", <<>>, <<ReturnStmtNode(expr)>>)>>),
       ExprStmtNode(Call0(Get(Call0(Var("B")), "t"))),
       CallPrint(<<Num(0)>>) >>

\* class A { init(x) {} }  A();  print(0);
ProgInitArity ==
    << ClassDeclNode("A", "", <<Method("init", <<"x">>, <<>>)>>),
       ExprStmtNode(Call0(Var("A"))),
       CallPrint(<<Num(0)>>) >>

\* class A {}  A(1);  print(0);
ProgNoInitArgs ==
    << ClassDeclNode("A", "", <<>>),
       ExprStmtNode(CallNode(Var("A"), <<Num(1)>>)),
       CallPrint(<<Num(0)>>) >>

\* class A { m(x) { return x; } }  var a = A();
\* print(a.m(1));  var m = a.m;  print(m(2));  m();  print(0);
ProgMethodArity ==
    << ClassDeclNode("A", "",
           <<Method("m", <<"x">>, <<ReturnStmtNode(Var("x"))>>)>>),
       VarDeclNode("a", Call0(Var("A"))),
       CallPrint(<<CallNode(Get(Var("a"), "m"), <<Num(1)>>)>>),
       VarDeclNode("m", Get(Var("a"), "m")),
       CallPrint(<<CallNode(Var("m"), <<Num(2)>>)>>),
       ExprStmtNode(Call0(Var("m"))),
       CallPrint(<<Num(0)>>) >>

\* class A { m(x) {} }  A().m();  print(0);
ProgInvokeArity ==
    << ClassDeclNode("A", "", <<Method("m", <<"x">>, <<>>)>>),
       ExprStmtNode(Call0(Get(Call0(Var("A")), "m"))),
       CallPrint(<<Num(0)>>) >>

\* class A { m() { return this.x; } }
\* class B < A { t() { var o = A(); o.x = 2; return super.m(); } }
\* var b = B();  b.x = 1;  print(b.t());
ProgSuperLocal ==
    << ClassDeclNode("A", "", <<Method("m", <<>>, <<ReturnStmtNode(Get(This, "x"))>>)>>),
       ClassDeclNode("B", "A",
           << Method("t", <<>>,
                  << VarDeclNode("o", Call0(Var("A"))),
                     ExprStmtNode(AssignmentExprNode(Get(Var("o"), "x"), Num(2))),
                     ReturnStmtNode(Call0(SuperExprNode("m"))) >>) >>),
       VarDeclNode("b", Call0(Var("B"))),
       ExprStmtNode(AssignmentExprNode(Get(Var("b"), "x"), Num(1))),
       CallPrint(<<Call0(Get(Var("b"), "t"))>>) >>

\* fun outer() {
\*   var l1; ... var l254;
\*   fun mid() {
\*     var m1; var m2; var m3;
\*     fun inner() { l1; ... l254; m1; m2; m3; } } }
\* print(0);
\* inner captures MAX_UPVALUES + 1 variables
ProgUpvalues ==
    << Fun("outer", <<>>,
           VarDecls(MAX_UPVALUES - 2)
               \o << Fun("mid", <<>>,
                         << VarDeclNode("m1", None), VarDeclNode("m2", None),
                            VarDeclNode("m3", None),
                            Fun("inner", <<>>,
                                [i \in 1..(MAX_UPVALUES - 2) |->
                                    ExprStmtNode(Var("l" \o NumToString(i)))]
                                    \o << ExprStmtNode(Var("m1")),
                                          ExprStmtNode(Var("m2")),
                                          ExprStmtNode(Var("m3")) >>) >>) >>),
       CallPrint(<<Num(0)>>) >>

\* class A { init(x) { this.x = x; if (x) return; this.x = nil; } }
\* var a = A(true);  var b = A(false);  print(a.x);  print(b.x);
ProgInitReturn ==
    << ClassDeclNode("A", "",
           << Method("init", <<"x">>,
                  << ExprStmtNode(AssignmentExprNode(Get(This, "x"), Var("x"))),
                     IfStmtNode(Var("x"), ReturnStmtNode(None), None),
                     ExprStmtNode(AssignmentExprNode(Get(This, "x"),
                                                     ValueNode(NilVal))) >>) >>),
       VarDeclNode("a", CallNode(Var("A"), <<ValueNode(BoolVal(TRUE))>>)),
       VarDeclNode("b", CallNode(Var("A"), <<ValueNode(BoolVal(FALSE))>>)),
       CallPrint(<<Get(Var("a"), "x")>>),
       CallPrint(<<Get(Var("b"), "x")>>) >>

\* class A { init() { return 1; } }  print(0);
ProgReturnInInit ==
    << ClassDeclNode("A", "",
           <<Method("init", <<>>, <<ReturnStmtNode(Num(1))>>)>>),
       CallPrint(<<Num(0)>>) >>

\* class A { m() { return 1; } }  fun f() { return 2; }
\* var a = A();  a.m = f;  print(a.m());  var g = a.m;  print(g());
ProgFieldMethod ==
    << ClassDeclNode("A", "", <<Method("m", <<>>, <<ReturnStmtNode(Num(1))>>)>>),
       Fun("f", <<>>, <<ReturnStmtNode(Num(2))>>),
       VarDeclNode("a", Call0(Var("A"))),
       ExprStmtNode(AssignmentExprNode(Get(Var("a"), "m"), Var("f"))),
       CallPrint(<<Call0(Get(Var("a"), "m"))>>),
       VarDeclNode("g", Get(Var("a"), "m")),
       CallPrint(<<Call0(Var("g"))>>) >>

\* for (var i = 0; i < 2; i = i + 1) print(i);
\* as Parser::_parse_for_statement makes it:
\* { var i = 0; while (i < 2) { print(i); i = i + 1; } }
ProgFor ==
    << BlockStmtNode(
           << VarDeclNode("i", Num(0)),
              WhileStmtNode(Bin(Var("i"), "<", Num(2)),
                  BlockStmtNode(
                      << CallPrint(<<Var("i")>>),
                         ExprStmtNode(AssignmentExprNode(
                             Var("i"), Bin(Var("i"), "+", Num(1)))) >>)) >>) >>

\* fun f() {}  var s = "a";  var i = 0;
\* while (i < 16) { s = s + "a"; i = i + 1; }
ProgConcat ==
    << Fun("f", <<>>, <<>>),
       VarDeclNode("s", StringNode("a")),
       VarDeclNode("i", Num(0)),
       WhileStmtNode(Bin(Var("i"), "<", Num(16)),
           BlockStmtNode(
               << Assign("s", Bin(Var("s"), "+", StringNode("a"))),
                  Assign("i", Bin(Var("i"), "+", Num(1))) >>)) >>

\* fun f(n) { if (n) return f(false); return 1; }
LocalRecursive ==
    Fun("f", <<"n">>,
        << IfStmtNode(Var("n"),
                      ReturnStmtNode(CallNode(Var("f"), <<ValueNode(BoolVal(FALSE))>>)),
                      None),
           ReturnStmtNode(Num(1)) >>)

\* { fun f(n) { if (n) return f(false); return 1; }  print(f(true)); }
ProgLocalRec ==
    << BlockStmtNode(
           << LocalRecursive,
              CallPrint(<<CallNode(Var("f"), <<ValueNode(BoolVal(TRUE))>>)>>) >>) >>

\* fun f(n) { return 2; }
\* { fun f(n) { if (n) return f(false); return 1; }  print(f(true)); }
ProgLocalRecGlobal ==
    << Fun("f", <<"n">>, <<ReturnStmtNode(Num(2))>>) >> \o ProgLocalRec

\* class A { init() {} m() { return 1; } }
\* { var g;  fun f() { return g; }  g = f; }
\* { var a = A();  a.b = a.m; }
\* fun h() {}  print(0);
ProgCycles ==
    << ClassDeclNode("A", "",
           << Method("init", <<>>, <<>>),
              Method("m", <<>>, <<ReturnStmtNode(Num(1))>>) >>),
       BlockStmtNode(
           << VarDeclNode("g", None),
              Fun("f", <<>>, <<ReturnStmtNode(Var("g"))>>),
              Assign("g", Var("f")) >>),
       BlockStmtNode(
           << VarDeclNode("a", Call0(Var("A"))),
              ExprStmtNode(AssignmentExprNode(Get(Var("a"), "b"),
                                              Get(Var("a"), "m"))) >>),
       Fun("h", <<>>, <<>>),
       CallPrint(<<Num(0)>>) >>

\* print(1, 2);  print(clock());  print();
ProgPrintNone ==
    << CallPrint(<<Num(1), Num(2)>>),
       CallPrint(<<Call0(Var("clock"))>>),
       CallPrint(<<>>) >>

ProgramNames ==
    {"arith", "counter", "shared", "earlyclose", "transitive", "classes",
     "superstmt", "strings", "call_nil", "call_bool", "call_number",
     "call_string", "call_instance", "call_local", "overflow", "arity",
     "deep", "noinit", "return_outside", "get_number", "get_string",
     "set_nil", "set_string", "invoke_bool", "invoke_string",
     "inherit_number", "inherit_string", "getsuper_undefined",
     "superinvoke_undefined", "init_arity", "noinit_args", "method_arity",
     "invoke_arity", "superlocal", "upvalues", "init_return",
     "return_in_init", "field_method", "for", "concat", "local_rec",
     "local_rec_global", "cycles", "print_none"}

\* the declarations of a program
Declarations(p) ==
    CASE p = "arith" -> ProgArith
      [] p = "counter" -> ProgCounter
      [] p = "shared" -> ProgShared
      [] p = "earlyclose" -> ProgEarlyClose
      [] p = "transitive" -> ProgTransitive
      [] p = "classes" -> ProgClasses
      [] p = "superstmt" -> ProgSuperStmt
      [] p = "strings" -> ProgStrings
      [] p = "call_nil" -> ProgCallValue(ValueNode(NilVal))
      [] p = "call_bool" -> ProgCallValue(ValueNode(BoolVal(TRUE)))
      [] p = "call_number" -> ProgCallValue(Num(1))
      [] p = "call_string" -> ProgCallValue(StringNode("s"))
      [] p = "call_instance" -> ProgCallInstance
      [] p = "call_local" -> ProgCallLocal
      [] p = "overflow" -> ProgOverflow
      [] p = "arity" -> ProgArity
      [] p = "deep" -> ProgDeep
      [] p = "noinit" -> ProgNoInit
      [] p = "return_outside" -> ProgReturnOutside
      [] p = "invoke_string" -> ProgInvoke(StringNode("s"))
      [] p = "invoke_bool" -> ProgInvoke(ValueNode(BoolVal(TRUE)))
      [] p = "set_string" -> ProgSetProperty(StringNode("s"))
      [] p = "set_nil" -> ProgSetProperty(ValueNode(NilVal))
      [] p = "get_string" -> ProgGetProperty(StringNode("s"))
      [] p = "get_number" -> ProgGetProperty(Num(1))
      [] p = "inherit_number" -> ProgInherit(Num(1))
      [] p = "inherit_string" -> ProgInherit(StringNode("s"))
      [] p = "getsuper_undefined" -> ProgSuper(SuperExprNode("nope"))
      [] p = "superinvoke_undefined" -> ProgSuper(Call0(SuperExprNode("nope")))
      [] p = "init_arity" -> ProgInitArity
      [] p = "noinit_args" -> ProgNoInitArgs
      [] p = "method_arity" -> ProgMethodArity
      [] p = "invoke_arity" -> ProgInvokeArity
      [] p = "superlocal" -> ProgSuperLocal
      [] p = "upvalues" -> ProgUpvalues
      [] p = "init_return" -> ProgInitReturn
      [] p = "return_in_init" -> ProgReturnInInit
      [] p = "field_method" -> ProgFieldMethod
      [] p = "for" -> ProgFor
      [] p = "concat" -> ProgConcat
      [] p = "local_rec" -> ProgLocalRec
      [] p = "local_rec_global" -> ProgLocalRecGlobal
      [] p = "cycles" -> ProgCycles
      [] p = "print_none" -> ProgPrintNone

\* the string literals of a program, in source order
Literals(p) ==
    CASE p = "arith" -> <<"s">>
      [] p = "strings" -> <<"x", "y", "xy", "p", "q", "p", "q", "p", "q">>
      [] p = "call_string" -> <<"s">>
      [] p = "get_string" -> <<"s">>
      [] p = "set_string" -> <<"s">>
      [] p = "invoke_string" -> <<"s">>
      [] p = "inherit_string" -> <<"s">>
      [] p = "concat" -> <<"a", "a">>
      [] OTHER -> <<>>

\* what clock() / CLOCKS_PER_SEC may yield
Clock == {0, 1}

-----------------------------------------------------------------------------
(* main.cpp: run_file *)

\* the parser's allocate_string of each string literal
RECURSIVE ParseStrings(_, _)
ParseStrings(A, literals) ==
    IF literals = <<>> THEN A
    ELSE ParseStrings(AllocateString(A, Head(literals), FALSE).A, Tail(literals))

Init ==
    /\ phase = "parsed"
    /\ prog \in ProgramNames
    /\ now \in Clock
    /\ script = 0
    /\ stack = EmptyStack
    /\ callstack = <<>>
    /\ open_upvalues = <<>>
    /\ globals = EmptyMap
    /\ \E stress_gc \in BOOLEAN :
           allocator = ParseStrings(NewAllocator(stress_gc), Literals(prog))
    /\ result = "NONE"
    /\ out = <<>>
    /\ errs = <<>>
    /\ gc = [count |-> 0, freed |-> {}, lost |-> {}]
    /\ stmt = <<>>
    /\ ub = FALSE
    /\ compiler = <<>>

\* the variables as a machine
Machine ==
    [stack |-> stack, callstack |-> callstack, open_upvalues |-> open_upvalues,
     globals |-> globals, allocator |-> allocator, result |-> result,
     out |-> out, errs |-> errs, gc |-> gc, stmt |-> stmt, now |-> now,
     ub |-> "no"]

\* the machine becomes the variables; run_file exits once _run has returned
Become(s) ==
    /\ stack' = s.stack
    /\ callstack' = s.callstack
    /\ open_upvalues' = s.open_upvalues
    /\ globals' = s.globals
    /\ allocator' = s.allocator
    /\ result' = s.result
    /\ out' = s.out
    /\ errs' = s.errs
    /\ gc' = s.gc
    /\ stmt' = s.stmt
    /\ ub' = (ub \/ s.ub # "no")
    /\ phase' = IF s.result = "NONE" THEN "running" ELSE "done"
    /\ UNCHANGED <<prog, script, now, compiler>>

\* the process dies of the undefined behaviour
Crashed == [Machine EXCEPT !.result = "CRASH", !.ub = "wild"]

\* what the build can do with the machine an operation arrives at
Outcomes(s) ==
    IF s.ub = "no" THEN {s}
    ELSE IF s.ub = "stale" THEN {s, Crashed}
    ELSE {Crashed}

Commit(s) == \E o \in Outcomes(s) : Become(o)

\* compiler.compile(declarations); a compile error exits, and so may a
\* compile that has met undefined behaviour
Compile ==
    /\ phase = "parsed"
    /\ \E r \in {CompileScript(allocator, Declarations(prog))} :
       \E died \in (IF r.ub = "no" THEN {FALSE} ELSE BOOLEAN) :
           /\ allocator' = r.A
           /\ script' = r.script
           /\ phase' = IF r.err = "" /\ ~died THEN "compiled" ELSE "done"
           /\ result' = IF died THEN "CRASH"
                        ELSE IF r.err = "" THEN "NONE" ELSE "COMPILE_ERROR"
           /\ out' = IF r.err = "" \/ died THEN out ELSE Append(out, r.err)
           /\ ub' = (r.ub # "no")
    /\ UNCHANGED <<prog, now, stack, callstack, open_upvalues, globals, errs,
                   gc, stmt, compiler>>

\* VM::define_native
DefineNative(s, name) ==
    Only({ [s1 EXCEPT !.globals = MapPut(@, name, ObjectVal(NewPtr(s1)), 0)]
         : s1 \in {New(s, FALSE, NativeFunctionObject(name))} })

\* VM::VM, then VM::interpret up to its call of _run
StartVM(s, function) ==
    Only({ CallValue(Push(s2, ObjectVal(NewPtr(s2))), ObjectVal(NewPtr(s2)), 0).s
         : s2 \in {New(DefineNative(DefineNative(s, "clock"), "print"),
                       FALSE, ClosureObject(function, <<>>))} })

Interpret ==
    /\ phase = "compiled"
    /\ Commit(StartVM(Machine, script))

\* history: the expression statement whose code begins at ip
MarkStmt(s) ==
    LET here == {r \in FrameFunction(s).exprstmts : r[1] = Frame(s).ip}
    IN  IF here = {} THEN s
        ELSE [s EXCEPT !.stmt[Len(s.stmt)] =
                 [depth |-> s.stack.top, end |-> (CHOOSE r \in here : TRUE)[2]]]

\* the opcode at ip, read through _current_frame->closure->function
Opcode(s) == ByteAt(s, 0)

\* _read_byte() of the opcode
Fetch(s) ==
    LET s1 == Deref(MarkStmt(s), Frame(s).closure)
    IN  Advance(Deref(s1, Obj(s, Frame(s).closure).function), 1)

\* the switch of VM::_run
Exec(op, s) ==
    CASE op = OP_RETURN -> ExecReturn(s)
      [] op = OP_POP -> ExecPop(s)
      [] op = OP_DEFINE_GLOBAL -> ExecDefineGlobal(s)
      [] op = OP_GET_GLOBAL -> ExecGetGlobal(s)
      [] op = OP_SET_GLOBAL -> ExecSetGlobal(s)
      [] op = OP_GET_LOCAL -> ExecGetLocal(s)
      [] op = OP_SET_LOCAL -> ExecSetLocal(s)
      [] op = OP_CONSTANT -> ExecConstant(s)
      [] op = OP_NIL -> ExecNil(s)
      [] op = OP_TRUE -> ExecTrue(s)
      [] op = OP_FALSE -> ExecFalse(s)
      [] op = OP_NOT -> ExecNot(s)
      [] op = OP_NEGATE -> ExecNegate(s)
      [] op = OP_EQUAL -> ExecEqual(s)
      [] op = OP_GREATER -> ExecGreater(s)
      [] op = OP_LESS -> ExecLess(s)
      [] op = OP_ADD -> ExecAdd(s)
      [] op = OP_SUBTRACT -> ExecSubtract(s)
      [] op = OP_MULTIPLY -> ExecMultiply(s)
      [] op = OP_DIVIDE -> ExecDivide(s)
      [] op = OP_JUMP_IF_FALSE -> ExecJumpIfFalse(s)
      [] op = OP_JUMP_IF_TRUE -> ExecJumpIfTrue(s)
      [] op = OP_JUMP -> ExecJump(s)
      [] op = OP_LOOP -> ExecLoop(s)
      [] op = OP_CALL -> ExecCall(s)
      [] op = OP_CLOSURE -> ExecClosure(s)
      [] op = OP_GET_UPVALUE -> ExecGetUpvalue(s)
      [] op = OP_SET_UPVALUE -> ExecSetUpvalue(s)
      [] op = OP_CLOSE_UPVALUE -> ExecCloseUpvalue(s)
      [] op = OP_CLASS -> ExecClass(s)
      [] op = OP_GET_PROPERTY -> ExecGetProperty(s)
      [] op = OP_SET_PROPERTY -> ExecSetProperty(s)
      [] op = OP_METHOD -> ExecMethod(s)
      [] op = OP_INVOKE -> ExecInvoke(s)
      [] op = OP_INHERIT -> ExecInherit(s)
      [] op = OP_GET_SUPER -> ExecGetSuper(s)
      [] op = OP_SUPER_INVOKE -> ExecSuperInvoke(s)

\* one turn of the loop of VM::_run
Step(s) == Exec(Opcode(s), Fetch(s))

\* the case of op is taken
Instruction(op) == phase = "running" /\ Opcode(Machine) = op

OpReturn == Instruction(OP_RETURN) /\ Commit(ExecReturn(Fetch(Machine)))

OpPop == Instruction(OP_POP) /\ Commit(ExecPop(Fetch(Machine)))

OpDefineGlobal == Instruction(OP_DEFINE_GLOBAL) /\ Commit(ExecDefineGlobal(Fetch(Machine)))

OpGetGlobal == Instruction(OP_GET_GLOBAL) /\ Commit(ExecGetGlobal(Fetch(Machine)))

OpSetGlobal == Instruction(OP_SET_GLOBAL) /\ Commit(ExecSetGlobal(Fetch(Machine)))

OpGetLocal == Instruction(OP_GET_LOCAL) /\ Commit(ExecGetLocal(Fetch(Machine)))

OpSetLocal == Instruction(OP_SET_LOCAL) /\ Commit(ExecSetLocal(Fetch(Machine)))

OpConstant == Instruction(OP_CONSTANT) /\ Commit(ExecConstant(Fetch(Machine)))

OpNil == Instruction(OP_NIL) /\ Commit(ExecNil(Fetch(Machine)))

OpTrue == Instruction(OP_TRUE) /\ Commit(ExecTrue(Fetch(Machine)))

OpFalse == Instruction(OP_FALSE) /\ Commit(ExecFalse(Fetch(Machine)))

OpNot == Instruction(OP_NOT) /\ Commit(ExecNot(Fetch(Machine)))

OpNegate == Instruction(OP_NEGATE) /\ Commit(ExecNegate(Fetch(Machine)))

OpEqual == Instruction(OP_EQUAL) /\ Commit(ExecEqual(Fetch(Machine)))

OpGreater == Instruction(OP_GREATER) /\ Commit(ExecGreater(Fetch(Machine)))

OpLess == Instruction(OP_LESS) /\ Commit(ExecLess(Fetch(Machine)))

OpAdd == Instruction(OP_ADD) /\ Commit(ExecAdd(Fetch(Machine)))

OpSubtract == Instruction(OP_SUBTRACT) /\ Commit(ExecSubtract(Fetch(Machine)))

OpMultiply == Instruction(OP_MULTIPLY) /\ Commit(ExecMultiply(Fetch(Machine)))

OpDivide == Instruction(OP_DIVIDE) /\ Commit(ExecDivide(Fetch(Machine)))

OpJumpIfFalse == Instruction(OP_JUMP_IF_FALSE) /\ Commit(ExecJumpIfFalse(Fetch(Machine)))

OpJumpIfTrue == Instruction(OP_JUMP_IF_TRUE) /\ Commit(ExecJumpIfTrue(Fetch(Machine)))

OpJump == Instruction(OP_JUMP) /\ Commit(ExecJump(Fetch(Machine)))

OpLoop == Instruction(OP_LOOP) /\ Commit(ExecLoop(Fetch(Machine)))

OpCall == Instruction(OP_CALL) /\ Commit(ExecCall(Fetch(Machine)))

OpClosure == Instruction(OP_CLOSURE) /\ Commit(ExecClosure(Fetch(Machine)))

OpGetUpvalue == Instruction(OP_GET_UPVALUE) /\ Commit(ExecGetUpvalue(Fetch(Machine)))

OpSetUpvalue == Instruction(OP_SET_UPVALUE) /\ Commit(ExecSetUpvalue(Fetch(Machine)))

OpCloseUpvalue == Instruction(OP_CLOSE_UPVALUE) /\ Commit(ExecCloseUpvalue(Fetch(Machine)))

OpClass == Instruction(OP_CLASS) /\ Commit(ExecClass(Fetch(Machine)))

OpGetProperty == Instruction(OP_GET_PROPERTY) /\ Commit(ExecGetProperty(Fetch(Machine)))

OpSetProperty == Instruction(OP_SET_PROPERTY) /\ Commit(ExecSetProperty(Fetch(Machine)))

OpMethod == Instruction(OP_METHOD) /\ Commit(ExecMethod(Fetch(Machine)))

OpInvoke == Instruction(OP_INVOKE) /\ Commit(ExecInvoke(Fetch(Machine)))

OpInherit == Instruction(OP_INHERIT) /\ Commit(ExecInherit(Fetch(Machine)))

OpGetSuper == Instruction(OP_GET_SUPER) /\ Commit(ExecGetSuper(Fetch(Machine)))

OpSuperInvoke == Instruction(OP_SUPER_INVOKE) /\ Commit(ExecSuperInvoke(Fetch(Machine)))

Next ==
    \/ Compile
    \/ Interpret
    \/ OpReturn
    \/ OpPop
    \/ OpDefineGlobal
    \/ OpGetGlobal
    \/ OpSetGlobal
    \/ OpGetLocal
    \/ OpSetLocal
    \/ OpConstant
    \/ OpNil
    \/ OpTrue
    \/ OpFalse
    \/ OpNot
    \/ OpNegate
    \/ OpEqual
    \/ OpGreater
    \/ OpLess
    \/ OpAdd
    \/ OpSubtract
    \/ OpMultiply
    \/ OpDivide
    \/ OpJumpIfFalse
    \/ OpJumpIfTrue
    \/ OpJump
    \/ OpLoop
    \/ OpCall
    \/ OpClosure
    \/ OpGetUpvalue
    \/ OpSetUpvalue
    \/ OpCloseUpvalue
    \/ OpClass
    \/ OpGetProperty
    \/ OpSetProperty
    \/ OpMethod
    \/ OpInvoke
    \/ OpInherit
    \/ OpGetSuper
    \/ OpSuperInvoke

Spec == Init /\ [][Next]_vars

-----------------------------------------------------------------------------
(* main.cpp: run_file as one computation, in the build without             *)
(* DEBUG_STRESS_GC: what a run is compared with.                           *)

\* the turns of the loop of VM::_run are counted in powers of two
MaxRunLog == 10

\* the machine run_file makes: stack, globals, callstack, open_upvalues and
\* the allocator
NewMachine(A, clock) ==
    [stack |-> EmptyStack, callstack |-> <<>>, open_upvalues |-> <<>>,
     globals |-> EmptyMap, allocator |-> A, result |-> "NONE", out |-> <<>>,
     errs |-> <<>>, gc |-> [count |-> 0, freed |-> {}, lost |-> {}],
     stmt |-> <<>>, now |-> clock, ub |-> "no"]

\* VM::_run: up to 2^k turns of its loop, until it returns
RECURSIVE Run(_, _)
Run(s, k) ==
    IF s.result # "NONE" \/ s.ub # "no" THEN s
    ELSE IF k = 0 THEN Step(s)
    ELSE Only({ Run(s1, k - 1) : s1 \in {Run(s, k - 1)} })

\* run_file of program p: the machine when the process exits
RunFile(p, clock) ==
    Only({ IF r.err # ""
           THEN [NewMachine(r.A, clock) EXCEPT !.result = "COMPILE_ERROR",
                                               !.out = <<r.err>>]
           ELSE Run(StartVM(NewMachine(r.A, clock), r.script), MaxRunLog)
         : r \in {CompileScript(ParseStrings(NewAllocator(FALSE), Literals(p)),
                                Declarations(p))} })

-----------------------------------------------------------------------------
(* compiler.cpp: the compiler taken step by step.  The compiler is inside a *)
(* block of the script and visits the statements of the block one by one,  *)
(* as the loop of operator()(const BlockStmtNode&) does.                    *)

\* the sources compiled step by step
\*   "locals":     { var l1;  l1 = l1;  var l2;  l2 = l2;  ...
\*   "constants":  { 1;  g;  g.p;  g = nil;  g.p = nil;  g.m();  7;  g;  ...
\*   "if":         { if (...) <a then-branch of some size>
\*   "while":      { while (...) <a body of some size>
CompilerPrograms == {"locals", "constants", "if", "while"}

\* the k-th statement of the block of "locals" or "constants"
BlockStatement(p, k) ==
    IF p = "locals"
    THEN IF k % 2 = 1
         THEN VarDeclNode("l" \o NumToString((k + 1) \div 2), None)
         ELSE ExprStmtNode(AssignmentExprNode(
                  Var("l" \o NumToString(k \div 2)),
                  Var("l" \o NumToString(k \div 2))))
    ELSE CASE k % 6 = 1 -> ExprStmtNode(Num(k))
           [] k % 6 = 2 -> ExprStmtNode(Var("g"))
           [] k % 6 = 3 -> ExprStmtNode(Get(Var("g"), "p"))
           [] k % 6 = 4 ->
                  ExprStmtNode(AssignmentExprNode(Var("g"), ValueNode(NilVal)))
           [] k % 6 = 5 ->
                  ExprStmtNode(AssignmentExprNode(Get(Var("g"), "p"),
                                                  ValueNode(NilVal)))
           [] OTHER -> ExprStmtNode(Call0(Get(Var("g"), "m")))

\* the statements of the block: one more than the limits let through
BlockLength(p) == IF p = "locals" THEN 2 * MAX_LOCALS + 2 ELSE MAX_LOCALS

\* the sizes in bytes of the code before a jump, and of the code jumped over
PrefixSizes == {0, 1, UINT8_MAX, UINT8_MAX + 1}

BodySizes ==
    {0, 1, UINT8_MAX, UINT8_MAX + 1} \cup (UINT16_MAX - 4)..(UINT16_MAX + 1)

\* the chunk after the code of statements that take n bytes
Pad(c, n) ==
    [c EXCEPT !.A.heap[ThisCompiler(c).function].code =
                  @ \o [i \in 1..n |-> OP_POP]]

\* the compiler as Compiler::compile starts it: [A, fs, err, ub]
StartCompiler(A) ==
    Only({ [A |-> r.A, fs |-> <<NewCompiler("SCRIPT", r.ptr, NoClass)>>,
            err |-> "", ub |-> "no"]
         : r \in {Allocate(A, NoRoots, FALSE, FunctionObject("", 0))} })

InitCompiler ==
    /\ phase = "compiling"
    /\ prog \in CompilerPrograms
    /\ \E prefix \in (IF prog \in {"if", "while"} THEN PrefixSizes ELSE {0}) :
           compiler = [c |-> Pad(BeginScope(StartCompiler(NewAllocator(FALSE))),
                                 prefix),
                       node |-> 0]
    /\ allocator = compiler.c.A
    /\ now = 0
    /\ script = 0
    /\ stack = EmptyStack
    /\ callstack = <<>>
    /\ open_upvalues = <<>>
    /\ globals = EmptyMap
    /\ result = "NONE"
    /\ out = <<>>
    /\ errs = <<>>
    /\ gc = [count |-> 0, freed |-> {}, lost |-> {}]
    /\ stmt = <<>>
    /\ ub = FALSE

\* the compiler has become c after one more statement
Visited(c) ==
    /\ compiler' = [c |-> c, node |-> compiler.node + 1]
    /\ allocator' = c.A
    /\ UNCHANGED <<phase, prog, script, now, stack, callstack, open_upvalues,
                   globals, result, out, errs, gc, stmt, ub>>

\* std::visit(*this, *statement) of the next statement of the block
VisitStatement ==
    /\ phase = "compiling" /\ prog \in {"locals", "constants"}
    /\ compiler.c.err = "" /\ compiler.node < BlockLength(prog)
    /\ Visited(CompileNode(compiler.c, BlockStatement(prog, compiler.node + 1)))

\* the forward jump of an if statement: _emit_jump, the code jumped over,
\* _patch_jump
VisitIf ==
    /\ phase = "compiling" /\ prog = "if" /\ compiler.node = 0
    /\ \E n \in BodySizes :
       \E then_jump \in {EmitJump(compiler.c, OP_JUMP_IF_FALSE)} :
           Visited(PatchJump(Pad(then_jump.c, n), then_jump.offset))

\* the backward jump of a while statement: the code of condition and body
\* from loop_start, _emit_loop
VisitWhile ==
    /\ phase = "compiling" /\ prog = "while" /\ compiler.node = 0
    /\ \E n \in BodySizes :
           Visited(EmitLoop(Pad(compiler.c, n), ChunkSize(compiler.c)))

NextCompiler == VisitStatement \/ VisitIf \/ VisitWhile

SpecCompiler == InitCompiler /\ [][NextCompiler]_vars

-----------------------------------------------------------------------------
(* parser.cpp: the lists of a function declaration and of a call.  The     *)
(* source is a single declaration                                           *)
(*   "fun_decl":  fun f(p1, ..., pn) {}                                     *)
(*   "call":      f(nil, ..., nil);                                         *)
(* and the parser's result is compiled as run_file compiles it.            *)

ParserPrograms == {"fun_decl", "call"}

\* the lengths of the list in the source
ListSizes == 0..20 \cup 240..(UINT8_MAX + 2)

\* the most elements a list is left with before the parser gives up
MAX_ARGUMENTS == 255

\* the do-while loop over a list of elements separated by commas: an element
\* is pushed, and the loop is left by the error when the size has reached
\* the limit, or after the last element
ParseList(elements) ==
    IF elements = <<>> THEN [list |-> <<>>, error |-> FALSE]
    ELSE Only({ [list |-> SubSeq(elements, 1, last),
                 error |-> last >= MAX_ARGUMENTS]
              : last \in {k \in 1..Len(elements) :
                            /\ k >= MAX_ARGUMENTS \/ k = Len(elements)
                            /\ \A j \in 1..(k - 1) : j < MAX_ARGUMENTS} })

\* Parser::_parse_function_declaration: the node, or nullptr after
\* "Function cannot take more than 255 parameters."
ParseFunctionDeclaration(name, params, statements, method) ==
    Only({ IF parsed.error THEN None
           ELSE FunDeclNode(name, parsed.list, statements, method)
         : parsed \in {ParseList(params)} })

\* Parser::_parse_call: the node, or nullptr after
\* "Function cannot take more than 255 arguments."
ParseCall(callee, args) ==
    Only({ IF parsed.error THEN None ELSE CallNode(callee, parsed.list)
         : parsed \in {ParseList(args)} })

InitParser ==
    /\ phase = "parsing"
    /\ prog \in ParserPrograms
    /\ \E size \in ListSizes : compiler = [size |-> size, node |-> None]
    /\ allocator = NewAllocator(FALSE)
    /\ now = 0
    /\ script = 0
    /\ stack = EmptyStack
    /\ callstack = <<>>
    /\ open_upvalues = <<>>
    /\ globals = EmptyMap
    /\ result = "NONE"
    /\ out = <<>>
    /\ errs = <<>>
    /\ gc = [count |-> 0, freed |-> {}, lost |-> {}]
    /\ stmt = <<>>
    /\ ub = FALSE

\* Parser::parse has made the declaration node, or has had an error and
\* run_file exits
Parsed(node, message) ==
    /\ compiler' = [compiler EXCEPT !.node = node]
    /\ phase' = IF node = None THEN "done" ELSE "parsed"
    /\ result' = IF node = None THEN "PARSE_ERROR" ELSE "NONE"
    /\ errs' = IF node = None THEN Append(errs, message) ELSE errs
    /\ UNCHANGED <<prog, script, now, stack, callstack, open_upvalues, globals,
                   allocator, out, gc, stmt, ub>>

\* the declaration  fun f(p1, ..., pn) {}
ParseFunDecl ==
    /\ phase = "parsing" /\ prog = "fun_decl"
    /\ Parsed(ParseFunctionDeclaration(
                  "f", [i \in 1..compiler.size |-> "p" \o NumToString(i)],
                  <<>>, FALSE),
              "Function cannot take more than 255 parameters.")

\* the statement  f(nil, ..., nil);
ParseCallStmt ==
    /\ phase = "parsing" /\ prog = "call"
    /\ \E call \in {ParseCall(Var("f"),
                              [i \in 1..compiler.size |-> ValueNode(NilVal)])} :
           Parsed(IF call = None THEN None ELSE ExprStmtNode(call),
                  "Function cannot take more than 255 arguments.")

\* Compiler::compile of the declaration the parser made
CompileParsed ==
    /\ phase = "parsed"
    /\ \E r \in {CompileScript(allocator, <<compiler.node>>)} :
           /\ allocator' = r.A
           /\ script' = r.script
           /\ phase' = IF r.err = "" THEN "compiled" ELSE "done"
           /\ result' = IF r.err = "" THEN "NONE" ELSE "COMPILE_ERROR"
           /\ out' = IF r.err = "" THEN out ELSE Append(out, r.err)
           /\ ub' = (r.ub # "no")
    /\ UNCHANGED <<prog, now, stack, callstack, open_upvalues, globals, errs,
                   gc, stmt, compiler>>

NextParser == ParseFunDecl \/ ParseCallStmt \/ CompileParsed

SpecParser == InitParser /\ [][NextParser]_vars

-----------------------------------------------------------------------------
(* parser.cpp: the loops of Parser::parse over a stream of tokens.  The    *)
(* parser is [pos, previous, panic_mode, had_error]: _current is the token *)
(* at pos, and the scanner yields END_OF_FILE for ever after the last one. *)
(* The loops the parser is in are a stack of [kind, size, method]: the     *)
(* declaration loop of parse, the loop of _parse_block_statement (method   *)
(* tells the body of a method from any other block) and the loop of        *)
(* _parse_class_declaration; size is the size of the vector the loop       *)
(* fills.  The streams hold no operator: of the infix rules only that of   *)
(* the call can apply.                                                     *)

\* the token types of the streams that are enumerated, and their lengths
TokenTypes ==
    {"IDENTIFIER", "NUMBER", "SEMICOLON", "LEFT_BRACE", "RIGHT_BRACE",
     "LEFT_PAREN", "RIGHT_PAREN", "CLASS", "FUN"}

MaxTokens == 3

\* the iterations of one loop that are followed
MaxElements == 14

RECURSIVE Streams(_)
Streams(n) ==
    IF n = 0 THEN {<<>>}
    ELSE Streams(n - 1)
             \cup {Append(ts, type) : ts \in {x \in Streams(n - 1) : Len(x) = n - 1},
                                      type \in TokenTypes}

\* class A { m() { } }    class A { 1 }    fun f(a) { x; { 1; } }
\* var x = 1;    { 1 2; x; }    class A { m() { 1 } n
LongStreams ==
    { <<"CLASS", "IDENTIFIER", "LEFT_BRACE", "IDENTIFIER", "LEFT_PAREN",
        "RIGHT_PAREN", "LEFT_BRACE", "RIGHT_BRACE", "RIGHT_BRACE">>,
      <<"CLASS", "IDENTIFIER", "LEFT_BRACE", "NUMBER", "RIGHT_BRACE">>,
      <<"FUN", "IDENTIFIER", "LEFT_PAREN", "IDENTIFIER", "RIGHT_PAREN",
        "LEFT_BRACE", "IDENTIFIER", "SEMICOLON", "LEFT_BRACE", "NUMBER",
        "SEMICOLON", "RIGHT_BRACE", "RIGHT_BRACE">>,
      <<"VAR", "IDENTIFIER", "EQUAL", "NUMBER", "SEMICOLON">>,
      <<"LEFT_BRACE", "NUMBER", "NUMBER", "SEMICOLON", "IDENTIFIER",
        "SEMICOLON", "RIGHT_BRACE">>,
      <<"CLASS", "IDENTIFIER", "LEFT_BRACE", "IDENTIFIER", "LEFT_PAREN",
        "RIGHT_PAREN", "LEFT_BRACE", "NUMBER", "RIGHT_BRACE", "IDENTIFIER">> }

\* _current.type
CurrentType(ts, p) == IF p.pos > Len(ts) THEN "END_OF_FILE" ELSE ts[p.pos]

\* Parser::_advance
ParserAdvance(ts, p) ==
    [p EXCEPT !.previous = CurrentType(ts, p),
              !.pos = IF p.pos > Len(ts) THEN p.pos ELSE p.pos + 1]

\* Parser::_error_at: nothing in panic mode
ErrorAt(p) ==
    IF p.panic_mode THEN p
    ELSE [p EXCEPT !.had_error = TRUE, !.panic_mode = TRUE]

\* Parser::_match
Match(ts, p, type) ==
    IF CurrentType(ts, p) # type THEN [p |-> p, ok |-> FALSE]
    ELSE [p |-> ParserAdvance(ts, p), ok |-> TRUE]

\* Parser::_consume: ok is whether the optional holds a token
Consume(ts, p, type) ==
    IF CurrentType(ts, p) = type THEN [p |-> ParserAdvance(ts, p), ok |-> TRUE]
    ELSE [p |-> ErrorAt(p), ok |-> FALSE]

\* Parser::_synchronize
RECURSIVE SkipTokens(_, _)
SkipTokens(ts, p) ==
    IF CurrentType(ts, p) = "END_OF_FILE" THEN p
    ELSE IF p.previous = "SEMICOLON" THEN p
    ELSE IF CurrentType(ts, p) \in {"CLASS", "FUN", "VAR", "FOR", "IF",
                                    "WHILE", "RETURN"} THEN p
    ELSE SkipTokens(ts, ParserAdvance(ts, p))

Synchronize(ts, p) == SkipTokens(ts, [p EXCEPT !.panic_mode = FALSE])

\* Parser::_parse_precedence(ASSIGNMENT) with _parse_number, _parse_variable,
\* _parse_grouping and _parse_call: the parser after the expression
RECURSIVE ParseExpression(_, _)
RECURSIVE ParseInfix(_, _)
ParseExpression(ts, p) ==
    Only({
      IF a.previous \in {"NUMBER", "IDENTIFIER"} THEN ParseInfix(ts, a)
      ELSE IF a.previous = "LEFT_PAREN"
      THEN ParseInfix(ts, Consume(ts, ParseExpression(ts, a), "RIGHT_PAREN").p)
      ELSE ErrorAt(a)
    : a \in {ParserAdvance(ts, p)} })

\* the loop of _parse_precedence over infix rules: LEFT_PAREN is _parse_call
ParseInfix(ts, p) ==
    IF CurrentType(ts, p) # "LEFT_PAREN" THEN p
    ELSE Only({
           ParseInfix(ts, Consume(ts,
               IF CurrentType(ts, a) # "RIGHT_PAREN"
               THEN ParseExpression(ts, a) ELSE a, "RIGHT_PAREN").p)
         : a \in {ParserAdvance(ts, p)} })

\* the loop on top has one element more
Pushed(loops) == [loops EXCEPT ![Len(loops)].size = @ + 1]

\* the end of Parser::_parse_declaration: the declaration goes into the
\* vector of the loop that asked for it
EndDeclaration(ts, p, loops) ==
    [p |-> IF p.panic_mode THEN Synchronize(ts, p) ELSE p,
     loops |-> Pushed(loops), thrown |-> FALSE]

\* Parser::_parse_function_declaration up to the loop of its body
ParseFunctionHeader(ts, p) ==
    Only({
      IF ~name.ok THEN [p |-> name.p, body |-> FALSE]
      ELSE Only({
             IF CurrentType(ts, paren.p) = "RIGHT_PAREN"
             THEN [p |-> Consume(ts, Consume(ts, paren.p, "RIGHT_PAREN").p,
                                 "LEFT_BRACE").p,
                   body |-> TRUE]
             ELSE Only({
                    IF ~param.ok THEN [p |-> param.p, body |-> FALSE]
                    ELSE [p |-> Consume(ts, Consume(ts, param.p, "RIGHT_PAREN").p,
                                        "LEFT_BRACE").p,
                          body |-> TRUE]
                  : param \in {Consume(ts, paren.p, "IDENTIFIER")} })
           : paren \in {Consume(ts, name.p, "LEFT_PAREN")} })
    : name \in {Consume(ts, p, "IDENTIFIER")} })

\* Parser::_parse_declaration up to the loop it enters, or to its end
ParseDeclaration(ts, p, loops) ==
    IF Match(ts, p, "VAR").ok
    THEN Only({
           EndDeclaration(ts,
               Consume(ts, IF Match(ts, name.p, "EQUAL").ok
                           THEN ParseExpression(ts, Match(ts, name.p, "EQUAL").p)
                           ELSE name.p, "SEMICOLON").p,
               loops)
         : name \in {Consume(ts, Match(ts, p, "VAR").p, "IDENTIFIER")} })
    ELSE IF Match(ts, p, "FUN").ok
    THEN Only({
           IF header.body
           THEN [p |-> header.p, thrown |-> FALSE,
                 loops |-> Append(loops, [kind |-> "block", size |-> 0,
                                          method |-> FALSE])]
           ELSE EndDeclaration(ts, header.p, loops)
         : header \in {ParseFunctionHeader(ts, Match(ts, p, "FUN").p)} })
    ELSE IF Match(ts, p, "CLASS").ok
    THEN Only({
           IF ~name.ok THEN EndDeclaration(ts, name.p, loops)
           ELSE [p |-> Consume(ts, name.p, "LEFT_BRACE").p, thrown |-> FALSE,
                 loops |-> Append(loops, [kind |-> "methods", size |-> 0,
                                          method |-> FALSE])]
         : name \in {Consume(ts, Match(ts, p, "CLASS").p, "IDENTIFIER")} })
    ELSE IF Match(ts, p, "LEFT_BRACE").ok
    THEN [p |-> Match(ts, p, "LEFT_BRACE").p, thrown |-> FALSE,
          loops |-> Append(loops, [kind |-> "block", size |-> 0,
                                   method |-> FALSE])]
    ELSE EndDeclaration(ts, Consume(ts, ParseExpression(ts, p), "SEMICOLON").p,
                        loops)

\* the end of the loop of _parse_block_statement: the block goes to the
\* method loop of the class, or ends the declaration it is the body of
EndBlock(ts, p, loops) ==
    Only({
      IF loops[Len(loops)].method
      THEN [p |-> brace.p, loops |-> Pushed(SubSeq(loops, 1, Len(loops) - 1)),
            thrown |-> FALSE]
      ELSE EndDeclaration(ts, brace.p, SubSeq(loops, 1, Len(loops) - 1))
    : brace \in {Consume(ts, p, "RIGHT_BRACE")} })

\* the end of the loop of _parse_class_declaration: end_brace.value()
\* throws std::bad_optional_access when the brace is not there
EndClass(ts, p, loops) ==
    Only({
      IF ~brace.ok THEN [p |-> brace.p, loops |-> loops, thrown |-> TRUE]
      ELSE EndDeclaration(ts, brace.p, SubSeq(loops, 1, Len(loops) - 1))
    : brace \in {Consume(ts, p, "RIGHT_BRACE")} })

\* one call of _parse_function_declaration(true) by the loop of the class
ParseMethod(ts, p, loops) ==
    Only({
      IF header.body
      THEN [p |-> header.p, thrown |-> FALSE,
            loops |-> Append(loops, [kind |-> "block", size |-> 0,
                                     method |-> TRUE])]
      ELSE [p |-> header.p, loops |-> Pushed(loops), thrown |-> FALSE]
    : header \in {ParseFunctionHeader(ts, p)} })

InitTokens ==
    /\ phase = "parsing"
    /\ prog = "tokens"
    /\ \E ts \in Streams(MaxTokens) \cup LongStreams :
           compiler = [tokens |-> ts,
                       parser |-> [pos |-> 1, previous |-> "NONE",
                                   panic_mode |-> FALSE, had_error |-> FALSE],
                       loops |-> << [kind |-> "declarations", size |-> 0,
                                     method |-> FALSE] >>]
    /\ allocator = NewAllocator(FALSE)
    /\ now = 0
    /\ script = 0
    /\ stack = EmptyStack
    /\ callstack = <<>>
    /\ open_upvalues = <<>>
    /\ globals = EmptyMap
    /\ result = "NONE"
    /\ out = <<>>
    /\ errs = <<>>
    /\ gc = [count |-> 0, freed |-> {}, lost |-> {}]
    /\ stmt = <<>>
    /\ ub = FALSE

\* the loop the parser is in
Loop == compiler.loops[Len(compiler.loops)]

\* the parser goes on in the loops it is in; an exception nobody catches
\* ends the process
Parsing(r) ==
    /\ compiler' = [compiler EXCEPT !.parser = r.p, !.loops = r.loops]
    /\ phase' = IF r.thrown THEN "done" ELSE "parsing"
    /\ result' = IF r.thrown THEN "CRASH" ELSE "NONE"
    /\ UNCHANGED <<prog, script, now, stack, callstack, open_upvalues, globals,
                   allocator, out, errs, gc, stmt, ub>>

\* one test of the loop of Parser::parse and what follows it: a declaration,
\* or the end of parse
ParseLoop ==
    /\ phase = "parsing" /\ prog = "tokens"
    /\ Loop.kind = "declarations" /\ Loop.size < MaxElements
    /\ \E eof \in {Match(compiler.tokens, compiler.parser, "END_OF_FILE")} :
           IF eof.ok
           THEN /\ compiler' = [compiler EXCEPT
                       !.parser = Consume(compiler.tokens, eof.p, "END_OF_FILE").p,
                       !.loops = <<>>]
                /\ phase' = IF eof.p.had_error THEN "done" ELSE "parsed"
                /\ result' = IF eof.p.had_error THEN "PARSE_ERROR" ELSE "NONE"
                /\ UNCHANGED <<prog, script, now, stack, callstack,
                               open_upvalues, globals, allocator, out, errs,
                               gc, stmt, ub>>
           ELSE Parsing(ParseDeclaration(compiler.tokens, compiler.parser,
                                         compiler.loops))

\* one test of the loop of _parse_block_statement and what follows it
BlockLoop ==
    /\ phase = "parsing" /\ prog = "tokens"
    /\ Loop.kind = "block" /\ Loop.size < MaxElements
    /\ IF CurrentType(compiler.tokens, compiler.parser)
              \in {"RIGHT_BRACE", "END_OF_FILE"}
       THEN Parsing(EndBlock(compiler.tokens, compiler.parser, compiler.loops))
       ELSE Parsing(ParseDeclaration(compiler.tokens, compiler.parser,
                                     compiler.loops))

\* one test of the loop of _parse_class_declaration and what follows it
MethodLoop ==
    /\ phase = "parsing" /\ prog = "tokens"
    /\ Loop.kind = "methods" /\ Loop.size < MaxElements
    /\ IF CurrentType(compiler.tokens, compiler.parser)
              \in {"RIGHT_BRACE", "END_OF_FILE"}
       THEN Parsing(EndClass(compiler.tokens, compiler.parser, compiler.loops))
       ELSE Parsing(ParseMethod(compiler.tokens, compiler.parser,
                                compiler.loops))

NextTokens == ParseLoop \/ BlockLoop \/ MethodLoop

SpecTokens == InitTokens /\ [][NextTokens]_vars

-----------------------------------------------------------------------------

(* vm.cpp: the bytes of a chunk as the loop of VM::_run reads them.        *)

\* the number of instructions decoded is counted in powers of two
MaxCodeLog == 12

\* the bytes _run reads for the instruction at offset of the code of
\* function fn of heap h: the opcode and the _read_byte() and _read_short()
\* calls of its case
InstructionLength(h, fn, offset) ==
    Only({
      CASE op \in {OP_CONSTANT, OP_DEFINE_GLOBAL, OP_GET_GLOBAL, OP_SET_GLOBAL,
                   OP_GET_LOCAL, OP_SET_LOCAL, OP_GET_UPVALUE, OP_SET_UPVALUE,
                   OP_CALL, OP_CLASS, OP_GET_PROPERTY, OP_SET_PROPERTY,
                   OP_METHOD, OP_GET_SUPER} -> 2
        [] op \in {OP_JUMP_IF_FALSE, OP_JUMP_IF_TRUE, OP_JUMP, OP_LOOP,
                   OP_INVOKE, OP_SUPER_INVOKE} -> 3
        [] op = OP_CLOSURE ->
              2 + 2 * h[h[fn].constants[h[fn].code[offset + 2] + 1].v].upvalue_count
        [] OTHER -> 1
    : op \in {h[fn].code[offset + 1]} })

\* the offsets of the instructions read one after the other from offset p,
\* up to 2^k of them, and the offset after the last one
RECURSIVE Decode(_, _, _, _)
Decode(h, fn, p, k) ==
    IF p >= Len(h[fn].code) THEN [offsets |-> {}, next |-> p]
    ELSE IF k = 0
    THEN [offsets |-> {p}, next |-> p + InstructionLength(h, fn, p)]
    ELSE Only({ Only({ [offsets |-> first.offsets \cup rest.offsets,
                        next |-> rest.next]
                     : rest \in {Decode(h, fn, first.next, k - 1)} })
              : first \in {Decode(h, fn, p, k - 1)} })

\* the offsets of the opcodes of function fn
OpcodeOffsets(h, fn) == Decode(h, fn, 0, MaxCodeLog).offsets

\* the exit code of run_file once the process has ended: a failed parse
\* std::exit(65), a failed compile and a runtime error both std::exit(70), a
\* finished run falls off main
ExitCode ==
    CASE result = "PARSE_ERROR" -> 65
      [] result = "COMPILE_ERROR" -> 70
      [] result = "RUNTIME_ERROR" -> 70
      [] result = "OK" -> 0

-----------------------------------------------------------------------------
(* The properties checked of the interpreter.                              *)

Heap == allocator.heap

\* the frame on top of the call stack
TopFrame == callstack[Len(callstack)]

\* the upvalues the closures that are not freed hold
HeldUpvalues ==
    UNION {Range(Heap[o].upvalues)
           : o \in {x \in DOMAIN Heap : Heap[x].kind = "Closure" /\ ~Heap[x].freed}}

\* C1: an object that can be reached from the roots of a collection (the
\* values on the stack, the closures of the frames, the open upvalues, the
\* globals, the object allocated last) through the references of the objects
\* is not freed by the sweep of that collection.
C1_SweepKeepsReachable == gc.lost = {}

\* C3: when an expression statement has run to its end without a runtime
\* error, the operand stack is as deep as it was when the statement began;
\* stated of the runs that have met no undefined behaviour.
C3_ExprStmtKeepsDepth ==
    (phase = "running" /\ ~ub /\ stmt[Len(stmt)].end = TopFrame.ip)
        => stack.top = stmt[Len(stmt)].depth

\* C4: no two open upvalues are of the same stack slot, and the closures
\* that captured the same variable (the same slot, made live by the same
\* push) hold the same upvalue object; stated of the runs that have met no
\* undefined behaviour.
C4_OneUpvaluePerVariable ==
    ~ub =>
        /\ \A i, j \in DOMAIN open_upvalues :
               Heap[open_upvalues[i]].slot = Heap[open_upvalues[j]].slot => i = j
        /\ \A u, v \in HeldUpvalues \cap DOMAIN Heap :
               (Heap[u].slot = Heap[v].slot /\ Heap[u].born = Heap[v].born)
                   => u = v

\* C5: every upvalue of the open list is open and of a slot below the depth
\* of the operand stack, and no closed upvalue is in the open list; stated
\* of the runs that have met no undefined behaviour.
C5_OpenUpvaluesBelowTop ==
    ~ub =>
        \A i \in DOMAIN open_upvalues :
            /\ Heap[open_upvalues[i]].open
            /\ Heap[open_upvalues[i]].slot >= 0
            /\ Heap[open_upvalues[i]].slot < stack.top

\* C8: the operand stack is never deeper than STACK_MAX.
C8_StackWithinCapacity == stack.top <= STACK_MAX

\* C2: collections are not observable: a run of the build that collects at
\* every allocation that may collect ends with the result, the lines printed
\* and the errors reported of the run of the build that collects only past
\* the threshold (which these programs never reach), whenever that run ends
\* without undefined behaviour.
C2_CollectionsUnobservable ==
    (phase = "done" /\ allocator.stress_gc) =>
        \A ref \in {RunFile(prog, now)} :
            (ref.ub = "no" /\ ref.result # "NONE")
                => <<result, out, errs>> = <<ref.result, ref.out, ref.errs>>

\* the globals of the program "counter" and the values they are to hold
CounterValues == [a |-> 1, b |-> 2, c |-> 1, d |-> 3]

\* C6: a closure that counts over a variable of the call that made it yields
\* 1, 2, 3, ... on successive calls, and the closures of separate calls
\* count independently: "counter" calls the first counter twice, the second
\* once, the first again, and the calls yield 1, 2, 1, 3.
C6_CountersCount ==
    prog = "counter" =>
        /\ \A k \in DOMAIN CounterValues \cap DOMAIN globals :
               globals[k].val = NumberVal(CounterValues[k])
        /\ phase = "done" =>
               (result = "OK" /\ DOMAIN CounterValues \subseteq DOMAIN globals)

\* "counter" has run to its end, in the build that collects at every
\* allocation, through a collection
C6_Witness ==
    /\ prog = "counter" /\ phase = "done" /\ result = "OK"
    /\ allocator.stress_gc /\ gc.count > 0
    /\ globals["d"].val = NumberVal(3)

\* the StringObjects that are not freed
LiveStrings == {o \in Range(allocator.objects) : Heap[o].kind = "String"}

\* OP_ADD is about to run on two StringObjects that are not freed
AddsStrings ==
    /\ phase = "running" /\ Opcode(Machine) = OP_ADD
    /\ \A val \in {Peek(Machine, 0), Peek(Machine, 1)} :
           is_object(val) /\ val.v \in LiveStrings

\* the text OP_ADD makes of its operands
AddedText == Heap[Peek(Machine, 1).v].value \o Heap[Peek(Machine, 0).v].value

\* C7: two StringObjects that are not freed and have the same text are the
\* same object, which is the one the table of interned strings holds for
\* that text; and OP_ADD on two strings pushes the interned object of the
\* concatenation.
C7_StringsInterned ==
    /\ [](\A a, b \in LiveStrings :
              /\ Heap[a].value = Heap[b].value => a = b
              /\ MapHas(allocator.interned_strings, Heap[a].value)
              /\ allocator.interned_strings[Heap[a].value].val = a)
    /\ [][AddsStrings =>
              /\ stack'.top = stack.top - 1
              /\ is_object(stack'.data[stack'.top])
              /\ stack'.data[stack'.top].v \in LiveStrings'
              /\ stack'.data[stack'.top].v =
                     allocator'.interned_strings[AddedText].val]_vars

\* "strings": the second concatenation "p" + "q" has yielded the object of
\* the first, in the build that collects at every allocation
C7_Witness ==
    /\ prog = "strings" /\ allocator.stress_gc /\ gc.count > 0
    /\ MapHas(globals, "d") /\ MapHas(globals, "e")
    /\ is_object(globals["d"].val)
    /\ globals["d"].val.v \in LiveStrings
    /\ globals["e"].val = globals["d"].val

\* the value OP_CALL is about to call, and its argument count
Callee == Peek(Machine, ByteAt(Machine, 1))

\* OP_CALL is about to call a closure that is not freed while MAX_FRAMES
\* frames are active
CallsClosureAtLimit ==
    /\ phase = "running" /\ Opcode(Machine) = OP_CALL
    /\ Len(callstack) = MAX_FRAMES
    /\ is_object(Callee)
    /\ Callee.v \in Range(allocator.objects)
    /\ Heap[Callee.v].kind = "Closure"

\* the step reports message as a runtime error and pushes no frame
Reports(message) ==
    /\ result' = "RUNTIME_ERROR"
    /\ Len(errs') > Len(errs)
    /\ errs'[Len(errs) + 1] = message
    /\ Len(callstack') = Len(callstack)

\* C9 as stated: never more than MAX_FRAMES frames, and a closure call
\* attempted while MAX_FRAMES frames are active yields the runtime error
\* "Stack overflow." and pushes no frame.
C9_CallAtLimitOverflows ==
    /\ [](Len(callstack) <= MAX_FRAMES)
    /\ [][CallsClosureAtLimit => Reports("Stack overflow.")]_vars

\* C9: never more than MAX_FRAMES frames, and a closure call attempted
\* while MAX_FRAMES frames are active yields a runtime error and pushes no
\* frame; the error is "Stack overflow." when the call passes as many
\* arguments as the function has parameters, and the error of the argument
\* count otherwise.
C9_CallAtLimitFails ==
    /\ [](Len(callstack) <= MAX_FRAMES)
    /\ [][CallsClosureAtLimit =>
              IF ByteAt(Machine, 1) = Heap[Heap[Callee.v].function].arity
              THEN Reports("Stack overflow.")
              ELSE Reports("Expected "
                      \o NumToString(Heap[Heap[Callee.v].function].arity)
                      \o " arguments but got "
                      \o NumToString(ByteAt(Machine, 1)) \o ".")]_vars

\* a call with MAX_FRAMES frames active has reported "Stack overflow."
C9_Witness ==
    /\ result = "RUNTIME_ERROR" /\ Len(callstack) = MAX_FRAMES
    /\ errs # <<>> /\ errs[1] = "Stack overflow."

\* the kinds of object VM::_call_value calls
Callables == {"Closure", "Class", "BoundMethod", "NativeFunction"}

\* OP_CALL is about to call a value that is not an object, or an object
\* that is not freed and of no kind that can be called
CallsNonCallable ==
    /\ phase = "running" /\ Opcode(Machine) = OP_CALL
    /\ is_object(Callee) =>
           /\ Callee.v \in Range(allocator.objects)
           /\ Heap[Callee.v].kind \notin Callables

\* C10: OP_CALL on a value that is not a closure, a class, a bound method
\* or a native function reports "Can only call functions and classes.",
\* pushes no frame, and the run ends with a runtime error.
C10_CallOfNonCallableFails ==
    [][CallsNonCallable =>
           /\ Reports("Can only call functions and classes.")
           /\ phase' = "done"]_vars

\* "call_local": a call of a number inside a function has ended the run
C10_Witness ==
    /\ prog = "call_local" /\ phase = "done" /\ result = "RUNTIME_ERROR"
    /\ Len(callstack) > 1
    /\ errs # <<>> /\ errs[1] = "Can only call functions and classes."

\* the value is an object that is not freed
IsLiveObject(val) == is_object(val) /\ val.v \in Range(allocator.objects)

\* the value GET_PROPERTY, SET_PROPERTY or INVOKE is about to take as its
\* receiver
Receiver ==
    CASE Opcode(Machine) = OP_GET_PROPERTY -> Peek(Machine, 0)
      [] Opcode(Machine) = OP_SET_PROPERTY -> Peek(Machine, 1)
      [] Opcode(Machine) = OP_INVOKE -> Peek(Machine, ByteAt(Machine, 2))

\* GET_PROPERTY, SET_PROPERTY or INVOKE is about to run on a receiver that
\* is no instance: a value that is no object, or an object that is not
\* freed and of another kind
OnNonInstance ==
    /\ phase = "running" /\ ~ub
    /\ Opcode(Machine) \in {OP_GET_PROPERTY, OP_SET_PROPERTY, OP_INVOKE}
    /\ is_object(Receiver) =>
           (IsLiveObject(Receiver) /\ Heap[Receiver.v].kind # "Instance")

\* C11: GET_PROPERTY, SET_PROPERTY and INVOKE on a receiver that is not an
\* instance, be it no object at all or an object of another kind, report a
\* runtime error and the run ends with RUNTIME_ERROR.
C11_NonInstanceReceiverFails ==
    [][OnNonInstance =>
           (result' = "RUNTIME_ERROR" /\ Len(errs') > Len(errs))]_vars

\* INHERIT is about to run with a superclass operand that is no class: a
\* value that is no object, or an object that is not freed and of another
\* kind
InheritsNonClass ==
    /\ phase = "running" /\ ~ub
    /\ Opcode(Machine) = OP_INHERIT
    /\ IsLiveObject(Top(Machine)) /\ Heap[Top(Machine).v].kind = "Class"
    /\ is_object(Peek(Machine, 1)) =>
           (IsLiveObject(Peek(Machine, 1))
                /\ Heap[Peek(Machine, 1).v].kind # "Class")

\* C12: INHERIT with a superclass operand that is not a class, be it no
\* object at all or an object of another kind, reports a runtime error and
\* leaves the method table of the subclass as it was.
C12_InheritFromNonClassFails ==
    [][InheritsNonClass =>
           /\ Reports("Superclass must be a class")
           /\ allocator'.heap[Top(Machine).v].methods
                  = Heap[Top(Machine).v].methods]_vars

\* the stack trace of the active frames, top frame first
Trace == [i \in 1..Len(callstack) |-> TraceName(Machine, Len(callstack) + 1 - i)]

\* the step ends the run with RUNTIME_ERROR
ReturnsRuntimeError == result = "NONE" /\ result' = "RUNTIME_ERROR"

\* C13: on every path where the VM returns RUNTIME_ERROR it has emitted an
\* error message followed by one trace line per active frame, top frame
\* first.
C13_RuntimeErrorIsReported ==
    [][ReturnsRuntimeError =>
           /\ Len(errs') = Len(errs) + 1 + Len(callstack)
           /\ SubSeq(errs', Len(errs) + 2, Len(errs')) = Trace]_vars

\* the process has ended on an error of the compiler
CompileFailed == phase = "done" /\ result = "COMPILE_ERROR"

\* C14: in file mode every compile error, an error of code emission such as
\* ReturnOutsideFunction included, ends the process with exit code 65 (a
\* runtime error with 70, success with 0).
C14_CompileErrorExits65 == CompileFailed => ExitCode = 65

\* the argument count operand of the call instruction about to run
ArgCount ==
    IF Opcode(Machine) = OP_CALL THEN ByteAt(Machine, 1) ELSE ByteAt(Machine, 2)

\* the arity of the function of a closure that is not freed
Arity(closure) == Heap[Heap[closure].function].arity

\* the object is a closure that is not freed, and neither is its function
IsLiveClosure(p) ==
    /\ p \in Range(allocator.objects) /\ Heap[p].kind = "Closure"
    /\ Heap[p].function \in Range(allocator.objects)

\* the initializer of a class, 0 if it has none
Initializer(klass) ==
    IF MapHas(Heap[klass].methods, "init") THEN Heap[klass].methods["init"].val
    ELSE 0

\* the closure OP_CALL is about to enter: the callee, the method of a bound
\* method, the initializer of a class; 0 for a class without initializer
CalledClosure ==
    CASE Heap[Callee.v].kind = "Closure" -> Callee.v
      [] Heap[Callee.v].kind = "BoundMethod" -> Heap[Callee.v].method
      [] Heap[Callee.v].kind = "Class" -> Initializer(Callee.v)

\* OP_CALL is about to run on a closure, a bound method or a class, none of
\* them freed, with a number of arguments that is not the arity of the
\* closure to enter (0 for a class without initializer)
CallsWithMismatch ==
    /\ phase = "running" /\ ~ub
    /\ Opcode(Machine) = OP_CALL
    /\ IsLiveObject(Callee)
    /\ Heap[Callee.v].kind \in {"Closure", "BoundMethod", "Class"}
    /\ CalledClosure # 0 => IsLiveClosure(CalledClosure)
    /\ ArgCount # (IF CalledClosure = 0 THEN 0 ELSE Arity(CalledClosure))

\* the step pushes a frame
PushesFrame == phase = "running" /\ Len(callstack') > Len(callstack)

\* C15: a call enters a closure only when the argument count equals the
\* arity of its function; a class with an initializer applies the same check
\* to the initializer, a class without one requires no arguments; every
\* mismatch reports a runtime error and pushes no frame.
C15_CallsCheckArity ==
    [][/\ PushesFrame =>
              /\ Opcode(Machine) \in {OP_CALL, OP_INVOKE, OP_SUPER_INVOKE}
              /\ Len(callstack') = Len(callstack) + 1
              /\ allocator'.heap[allocator'.heap[
                     callstack'[Len(callstack')].closure].function].arity
                   = ArgCount
       /\ CallsWithMismatch =>
              /\ result' = "RUNTIME_ERROR"
              /\ Len(errs') > Len(errs)
              /\ Len(callstack') = Len(callstack)]_vars

\* the receiver of the method that is running: slot 0 of the top frame
ThisValue == StackAt(Machine, TopFrame.offset)

\* slot i of the frame the step has pushed
NewFrameSlot(i) == stack'.data[callstack'[Len(callstack')].offset + i + 1]

\* SUPER_INVOKE enters the method with the caller's receiver in slot 0 and
\* the arguments in the slots above it
SuperInvokeBindsThis ==
    (Opcode(Machine) = OP_SUPER_INVOKE /\ PushesFrame) =>
        /\ NewFrameSlot(0) = ThisValue
        /\ \A i \in 1..ArgCount :
               NewFrameSlot(i) = Peek(Machine, ArgCount + 1 - i)

\* GET_SUPER leaves a bound method of the caller's receiver on the stack
GetSuperBindsThis ==
    (Opcode(Machine) = OP_GET_SUPER /\ result' = "NONE") =>
        /\ is_object(stack'.data[stack'.top])
        /\ allocator'.heap[stack'.data[stack'.top].v].kind = "BoundMethod"
        /\ allocator'.heap[stack'.data[stack'.top].v].receiver = ThisValue

\* C16: super calls bind to the current receiver: whatever the number of
\* arguments and of locals and temporaries on the calling method's stack,
\* SUPER_INVOKE runs the method in a new frame whose slot 0 holds the
\* caller's this and whose slots 1..n hold the arguments, and GET_SUPER
\* produces a bound method whose receiver is that this.
C16_SuperBindsThis ==
    [][(phase = "running" /\ ~ub) =>
           (SuperInvokeBindsThis /\ GetSuperBindsThis)]_vars

\* the locals and the code of the function the stepped compiler is in
Locals == ThisCompiler(compiler.c).locals

Code == compiler.c.A.heap[ThisCompiler(compiler.c).function].code

\* the stepped compiler visits a statement of the block of program p
Visits(p) == phase = "compiling" /\ prog = p /\ compiler' # compiler

\* the statement visited is the declaration var l<j>; or the use l<j> = l<j>;
\* of the local declared last
VisitsDeclaration == Visits("locals") /\ compiler.node % 2 = 0

VisitsUse == Visits("locals") /\ compiler.node % 2 = 1

\* C17: a function holds up to 256 local slots, the reserved slot 0
\* included: every declaration below the limit is accepted, the declaration
\* of one more is the compile error of the local limit, and every operand
\* emitted for GET_LOCAL and SET_LOCAL is the slot of the local, below 256.
C17_LocalLimit ==
    [][/\ VisitsDeclaration =>
              IF Len(Locals) < MAX_LOCALS
              THEN /\ compiler'.c.err = ""
                   /\ Len(Locals') = Len(Locals) + 1
                   /\ Locals'[Len(Locals')].name
                          = "l" \o NumToString(compiler.node \div 2 + 1)
              ELSE /\ compiler'.c.err = "LocalVariableLimitExceeded"
                   /\ Locals' = Locals
       /\ VisitsUse =>
              /\ compiler'.c.err = ""
              /\ Len(Locals) - 1 < MAX_LOCALS
              /\ Code' = Code \o << OP_GET_LOCAL, Len(Locals) - 1,
                                    OP_SET_LOCAL, Len(Locals) - 1, OP_POP >>]_vars

\* slot 255 has been declared and used, and the next declaration has failed
C17_Witness ==
    /\ phase = "compiling" /\ prog = "locals"
    /\ compiler.c.err = "LocalVariableLimitExceeded"
    /\ Len(Locals) = MAX_LOCALS
    /\ SubSeq(Code, Len(Code) - 5, Len(Code) - 1)
           = <<OP_GET_LOCAL, UINT8_MAX, OP_SET_LOCAL, UINT8_MAX, OP_POP>>

\* the FunctionObjects of the heap
Functions == {o \in DOMAIN Heap : Heap[o].kind = "Function"}

\* C18: a function never has more than 256 upvalues: the registration of a
\* new distinct upvalue when 256 exist is the compile error
\* UpvalueLimitExceeded, and nothing is written past the array of 256.
C18_UpvalueLimit ==
    \A o \in Functions : Heap[o].upvalue_count <= MAX_UPVALUES

\* the constant table of the function the stepped compiler is in
Constants == compiler.c.A.heap[ThisCompiler(compiler.c).function].constants

\* the constants the k-th statement of "constants" adds: the number, and
\* each name of a global, a property or a method
Added(k) == IF k % 6 \in {1, 2, 4} THEN 1 ELSE 2

\* the code of the k-th statement of "constants" when the table holds n
\* constants before it
Emitted(k, n) ==
    CASE k % 6 = 1 -> <<OP_CONSTANT, n, OP_POP>>
      [] k % 6 = 2 -> <<OP_GET_GLOBAL, n, OP_POP>>
      [] k % 6 = 3 -> <<OP_GET_GLOBAL, n, OP_GET_PROPERTY, n + 1, OP_POP>>
      [] k % 6 = 4 -> <<OP_NIL, OP_SET_GLOBAL, n, OP_POP>>
      [] k % 6 = 5 ->
             <<OP_GET_GLOBAL, n, OP_NIL, OP_SET_PROPERTY, n + 1, OP_POP>>
      [] OTHER -> <<OP_GET_GLOBAL, n, OP_INVOKE, n + 1, 0, OP_POP>>

\* C19: the constant table of a chunk accepts 256 entries and the 257th is
\* the compile error of the constant limit; every constant-index operand
\* emitted is the index of the constant, a valid index into the table.
C19_ConstantLimit ==
    [][Visits("constants") =>
           IF Len(Constants) + Added(compiler.node + 1) <= UINT8_MAX + 1
           THEN /\ compiler'.c.err = ""
                /\ Len(Constants') = Len(Constants) + Added(compiler.node + 1)
                /\ Code' = Code \o Emitted(compiler.node + 1, Len(Constants))
                /\ Len(Constants) + Added(compiler.node + 1) - 1
                       < Len(Constants')
                /\ compiler.node % 6 = 0 =>
                       Constants'[Len(Constants')]
                           = NumberVal(compiler.node + 1)
           ELSE compiler'.c.err = "ChunkConstantLimitExceeded"]_vars

\* 256 constants have been accepted, the last with operand 255, and the
\* 257th has failed
C19_Witness ==
    /\ phase = "compiling" /\ prog = "constants"
    /\ compiler.c.err = "ChunkConstantLimitExceeded"
    /\ Len(Constants) = UINT8_MAX + 2
    /\ SubSeq(Code, Len(Code) - 3, Len(Code) - 1)
           = <<OP_GET_PROPERTY, UINT8_MAX, OP_POP>>

\* the distance of the forward jump the step has compiled: the bytes between
\* the two operand bytes and the end of the code
JumpDistance == Len(Code') - (Len(Code) + 3)

\* the distance of the backward jump the step has compiled: from the end of
\* the two operand bytes back to loop_start
LoopDistance == Len(Code') - Len(Code)

\* the distance the VM reads from the two operand bytes at index i and i + 1
\* of the code the step has made: _read_short
ReadBack(i) == Code'[i] * 256 + Code'[i + 1]

\* C20: a forward jump over more than 65,535 bytes is the compile error
\* JumpLimitExceeded and a backward loop over more than 65,535 bytes is
\* LoopLimitExceeded; otherwise the two operand bytes hold the distance,
\* high byte first, and the distance the VM reads back is the distance.
C20_JumpLimit ==
    [][/\ Visits("if") =>
              IF JumpDistance > UINT16_MAX
              THEN compiler'.c.err = "JumpLimitExceeded"
              ELSE /\ compiler'.c.err = ""
                   /\ Code'[Len(Code) + 1] = OP_JUMP_IF_FALSE
                   /\ Code'[Len(Code) + 2] = JumpDistance \div 256
                   /\ Code'[Len(Code) + 3] = JumpDistance % 256
                   /\ ReadBack(Len(Code) + 2) = JumpDistance
       /\ Visits("while") =>
              IF compiler'.c.err = ""
              THEN /\ LoopDistance <= UINT16_MAX
                   /\ Code'[Len(Code') - 2] = OP_LOOP
                   /\ Code'[Len(Code') - 1] = LoopDistance \div 256
                   /\ Code'[Len(Code')] = LoopDistance % 256
                   /\ ReadBack(Len(Code') - 1) = LoopDistance
              ELSE /\ compiler'.c.err = "LoopLimitExceeded"
                   /\ LoopDistance + 2 > UINT16_MAX]_vars

\* a forward jump over 65,534 bytes has been compiled after one byte of code
C20_Witness ==
    /\ phase = "compiling" /\ prog = "if" /\ compiler.node = 1
    /\ compiler.c.err = ""
    /\ Len(Code) = 1 + 3 + (UINT16_MAX - 1)
    /\ SubSeq(Code, 2, 4) = <<OP_JUMP_IF_FALSE, UINT8_MAX, UINT8_MAX - 1>>

\* the length of the list in the source, and whether the parser let the
\* declaration through
ListSize == compiler.size

Accepted == result # "PARSE_ERROR"

\* the one-byte operand the compiler stored the length in: the arity of the
\* function compiled last, or the operand of the CALL instruction
StoredCount ==
    IF prog = "fun_decl"
    THEN Heap[Only(Functions \ {script})].arity
    ELSE Heap[script].code[Len(Heap[script].code) - 3]

\* C21: a parameter list or an argument list of up to 255 elements is
\* accepted and its length is stored in the one-byte operand as it is; a
\* list of 256 or more is rejected
C21_ListLimit ==
    /\ phase \in {"parsed", "done"} =>
           (Accepted <=> ListSize <= 255)
    /\ phase = "compiled" => StoredCount = ListSize

\* the closures that are the init method of a class
Initializers ==
    { Heap[klass].methods["init"].val
    : klass \in {o \in DOMAIN Heap : /\ Heap[o].kind = "Class"
                                      /\ MapHas(Heap[o].methods, "init")} }

\* RETURN is about to leave the frame of an initializer
ReturnsFromInitializer ==
    /\ Instruction(OP_RETURN)
    /\ TopFrame.closure \in Initializers

\* the script has a return statement of its own
ReturnsAtScriptLevel ==
    \E d \in Range(Declarations(prog)) : d.node = "ReturnStmt"

\* a method named init has a return statement with a value
ReturnsValueInInit ==
    \E d \in Range(Declarations(prog)) :
        /\ d.node = "ClassDecl"
        /\ \E m \in Range(d.methods) :
               /\ m.name = "init"
               /\ \E st \in Range(m.body.statements) :
                      st.node = "ReturnStmt" /\ st.value # None

\* C22: every return of a method named init, the bare "return;" and the end
\* of the body, returns the receiver of slot 0 of its frame, so the call of
\* the class leaves the new instance in the slot of the class; "return" with
\* a value inside init is the compile error ReturnInsideInitializer and
\* "return" at script level is the compile error ReturnOutsideFunction
C22_InitReturnsReceiver ==
    [][/\ ReturnsFromInitializer =>
              /\ stack'.top = TopFrame.offset + 1
              /\ stack'.data[stack'.top] = ThisValue
              /\ ThisValue.t = "OBJECT"
              /\ Heap[ThisValue.v].kind = "Instance"
              /\ Initializer(Heap[ThisValue.v].klass) = TopFrame.closure
       /\ phase = "parsed" /\ ReturnsValueInInit =>
              result' = "COMPILE_ERROR" /\ out' = <<"ReturnInsideInitializer">>
       /\ phase = "parsed" /\ ReturnsAtScriptLevel =>
              result' = "COMPILE_ERROR" /\ out' = <<"ReturnOutsideFunction">>]_vars

\* the objects allocated and not freed
NotFreed == {o \in DOMAIN Heap : ~Heap[o].freed}

\* a collection has freed objects and has left others in the list
HasCollected == gc.count > 0 /\ gc.freed # {} /\ allocator.objects # <<>>

\* C23: bytes_allocated is the sum of size() over the objects in the object
\* list, after every collection and between collections, and the objects in
\* the list are exactly the objects allocated and not yet freed
C23_BytesAllocated ==
    /\ allocator.bytes_allocated = Bytes(Heap, Range(allocator.objects))
    /\ Range(allocator.objects) = NotFreed

C23_Witness ==
    /\ HasCollected
    /\ allocator.bytes_allocated = Bytes(Heap, NotFreed)
    /\ allocator.bytes_allocated > 0

\* C24: after a collection every object in the object list has its mark
\* bit cleared, and the grey list is empty
C24_MarksCleared ==
    /\ \A o \in Range(allocator.objects) : ~Heap[o].is_marked
    /\ allocator.grey_list = {}

C24_Witness ==
    /\ HasCollected
    /\ \E o \in Range(allocator.objects) :
           o \notin {allocator.objects[Len(allocator.objects)]} /\ ~Heap[o].is_marked

\* the strings a collection has freed
FreedStrings == {o \in gc.freed : Heap[o].kind = "String"}

\* C25: the interning map has an entry for a string exactly when the string
\* is in the object list: no entry refers to a freed string, so that
\* allocate_string returns no freed object, and every surviving string has
\* kept its entry
C25_InternedIffSurvived ==
    /\ \A text \in DOMAIN allocator.interned_strings :
           /\ allocator.interned_strings[text].val \in LiveStrings
           /\ Heap[allocator.interned_strings[text].val].value = text
    /\ \A o \in LiveStrings :
           /\ MapHas(allocator.interned_strings, Heap[o].value)
           /\ allocator.interned_strings[Heap[o].value].val = o
    /\ \A o \in FreedStrings :
           \A text \in DOMAIN allocator.interned_strings :
               allocator.interned_strings[text].val # o

\* a collection has freed a string and erased its entry, and other strings
\* have survived it with theirs
C25_Witness ==
    /\ gc.count > 0 /\ phase = "running"
    /\ \E o \in FreedStrings :
           ~MapHas(allocator.interned_strings, Heap[o].value)
    /\ \E o \in LiveStrings :
           allocator.interned_strings[Heap[o].value].val = o

\* RETURN is about to leave a frame that is not the script's
ReturnsToCaller == Instruction(OP_RETURN) /\ Len(callstack) > 1

\* the open upvalues of the slots of the returning frame, and of the slots
\* of its callers
FrameUpvalues ==
    {u \in Range(open_upvalues) : Heap[u].slot >= TopFrame.offset}

CallerUpvalues ==
    {u \in Range(open_upvalues) : Heap[u].slot < TopFrame.offset}

\* C26: RETURN from a frame that is not the script's closes exactly the open
\* upvalues of the slots at or above the base of the returning frame; every
\* open upvalue of a slot of a caller stays open
C26_ReturnClosesOwnUpvalues ==
    [][ReturnsToCaller =>
           /\ Range(open_upvalues') = CallerUpvalues
           /\ \A u \in CallerUpvalues : allocator'.heap[u].open
           /\ \A u \in FrameUpvalues : ~allocator'.heap[u].open]_vars

\* the instruction is the call of a call expression
IsCall ==
    phase = "running"
        /\ Opcode(Machine) \in {OP_CALL, OP_INVOKE, OP_SUPER_INVOKE}

\* the depth of the stack when the call expression of the instruction began:
\* operator()(const CallNode&) has pushed the callee or the receiver (for a
\* super call, the superclass after the arguments) and the arguments
CallBegan == stack.top - ArgCount - 1

\* the slots below depth are as they were
SlotsKept(depth) == \A i \in 1..depth : stack'.data[i] = stack.data[i]

\* C27: a call expression (CALL, INVOKE, SUPER_INVOKE) that returns normally
\* leaves the stack one deeper than it was when the expression began, with
\* the return value on top and the slots that were there unchanged: the
\* frame of the call has its base where the expression began, and RETURN
\* leaves the returned value in the base slot
C27_CallDiscipline ==
    [][/\ (IsCall /\ PushesFrame) =>
              /\ callstack'[Len(callstack')].offset = CallBegan
              /\ SlotsKept(CallBegan)
       /\ (IsCall /\ result' = "NONE" /\ Len(callstack') = Len(callstack)) =>
              /\ stack'.top = CallBegan + 1
              /\ SlotsKept(CallBegan)
       /\ (ReturnsToCaller /\ result' = "NONE") =>
              /\ stack'.top = TopFrame.offset + 1
              /\ stack'.data[stack'.top] = Top(Machine)
              /\ SlotsKept(TopFrame.offset)]_vars

\* CLOSURE is about to run; the function of its operand, and the operand
\* pair i of the new closure's upvalue i
ClosureFunction == Constant(Machine, ByteAt(Machine, 1)).v

IsLocalOperand(i) == ByteAt(Machine, 2 + 2 * i)

IndexOperand(i) == ByteAt(Machine, 3 + 2 * i)

\* CLOSURE has pushed the new closure
PushesClosure ==
    /\ Instruction(OP_CLOSURE)
    /\ result' = "NONE" /\ stack'.top = stack.top + 1

NewClosure == allocator'.heap[stack'.data[stack'.top].v]

\* C28: for each operand pair i of CLOSURE, the new closure's upvalue i is
\* the executing closure's upvalue at index when is_local is 0, and the open
\* upvalue of stack slot frame.offset + index when is_local is 1
C28_ClosureUpvalues ==
    [][PushesClosure =>
           /\ NewClosure.kind = "Closure"
           /\ NewClosure.function = ClosureFunction
           /\ Len(NewClosure.upvalues) = Heap[ClosureFunction].upvalue_count
           /\ \A i \in 0..(Heap[ClosureFunction].upvalue_count - 1) :
                  IF IsLocalOperand(i) = 0
                  THEN NewClosure.upvalues[i + 1] =
                           Heap[TopFrame.closure].upvalues[IndexOperand(i) + 1]
                  ELSE /\ NewClosure.upvalues[i + 1] \in Range(open_upvalues')
                       /\ allocator'.heap[NewClosure.upvalues[i + 1]].open
                       /\ allocator'.heap[NewClosure.upvalues[i + 1]].slot =
                              TopFrame.offset + IndexOperand(i)]_vars

\* INVOKE is about to run on a live instance: its name operand and the
\* receiver below the arguments
InvokedName == Heap[Constant(Machine, ByteAt(Machine, 1)).v].value

InvokeReceiver == Peek(Machine, ByteAt(Machine, 2))

InvokesOnInstance ==
    /\ Instruction(OP_INVOKE) /\ ~ub
    /\ IsLiveObject(InvokeReceiver)
    /\ Heap[InvokeReceiver.v].kind = "Instance"

\* what GET_PROPERTY of the name gives for the receiver: the field if there
\* is one, else the class method bound to the receiver; and the closure and
\* the slot 0 of the frame that CALL makes of it
HasField == MapHas(Heap[InvokeReceiver.v].fields, InvokedName)

FieldValue == Heap[InvokeReceiver.v].fields[InvokedName].val

ClassMethod == Heap[Heap[InvokeReceiver.v].klass].methods[InvokedName].val

PropertyClosure ==
    IF ~HasField THEN ClassMethod
    ELSE CASE Heap[FieldValue.v].kind = "Closure" -> FieldValue.v
           [] Heap[FieldValue.v].kind = "BoundMethod" -> Heap[FieldValue.v].method
           [] Heap[FieldValue.v].kind = "Class" -> Initializer(FieldValue.v)

\* C29: INVOKE name argc does what GET_PROPERTY name followed by CALL argc
\* does, also for an instance that has a field and a class method of that
\* name: the frame pushed is that of the closure the property gives
C29_InvokeIsGetPropertyCall ==
    [][(InvokesOnInstance /\ PushesFrame) =>
           callstack'[Len(callstack')].closure = PropertyClosure]_vars

\* GET_SUPER is about to run with a live superclass below this; the method
\* it names
GetsSuper ==
    /\ Instruction(OP_GET_SUPER) /\ ~ub
    /\ IsLiveObject(Peek(Machine, 1))
    /\ Heap[Peek(Machine, 1).v].kind = "Class"

SuperMethodName == Heap[Constant(Machine, ByteAt(Machine, 1)).v].value

SuperHasMethod == MapHas(Heap[Peek(Machine, 1).v].methods, SuperMethodName)

\* C30: GET_SUPER on a stack [..., superclass, this] replaces the two values
\* by one bound method, so that the stack is one shallower and the
\* superclass is gone; when the superclass has no such method the result is
\* a runtime error
C30_GetSuperReplacesBoth ==
    [][/\ (GetsSuper /\ SuperHasMethod /\ result' = "NONE") =>
              /\ stack'.top = stack.top - 1
              /\ is_object(stack'.data[stack'.top])
              /\ allocator'.heap[stack'.data[stack'.top].v].kind = "BoundMethod"
              /\ SlotsKept(stack.top - 2)
       /\ (GetsSuper /\ ~SuperHasMethod /\ result' # "CRASH") =>
              result' = "RUNTIME_ERROR"]_vars

\* the classes in the object list
LiveClasses == {o \in Range(allocator.objects) : Heap[o].kind = "Class"}

\* INHERIT is about to run on [..., superclass, subclass], both classes
InheritsClass ==
    /\ Instruction(OP_INHERIT)
    /\ IsLiveObject(Top(Machine)) /\ Top(Machine).v \in LiveClasses
    /\ IsLiveObject(Peek(Machine, 1)) /\ Peek(Machine, 1).v \in LiveClasses

\* METHOD is about to run on [..., class, closure]
DefinesMethod ==
    /\ Instruction(OP_METHOD)
    /\ IsLiveObject(Peek(Machine, 1)) /\ Peek(Machine, 1).v \in LiveClasses
    /\ is_object(Top(Machine))

MethodName == Heap[Constant(Machine, ByteAt(Machine, 1)).v].value

\* the method table of class k after the step, and before it
MethodsAfter(k) ==
    [name \in DOMAIN allocator'.heap[k].methods |->
        allocator'.heap[k].methods[name].val]

MethodsBefore(k) ==
    [name \in DOMAIN Heap[k].methods |-> Heap[k].methods[name].val]

FunctionOf(frame) == Heap[frame.closure].function

\* the offset the jump instruction at offset of function fn sets ip to when
\* it is taken: ip is after the operand when the jump is added or subtracted
JumpTarget(fn, offset) ==
    IF Heap[fn].code[offset + 1] = OP_LOOP
    THEN offset + 3 - (Heap[fn].code[offset + 2] * 256 + Heap[fn].code[offset + 3])
    ELSE offset + 3 + (Heap[fn].code[offset + 2] * 256 + Heap[fn].code[offset + 3])

\* the offsets of the jump instructions of function fn
JumpOffsets(fn) ==
    { offset \in OpcodeOffsets(Heap, fn) :
        Heap[fn].code[offset + 1] \in {OP_JUMP_IF_FALSE, OP_JUMP_IF_TRUE,
                                       OP_JUMP, OP_LOOP} }

\* C32: every jump the compiler emits lands on an opcode byte: the target of
\* every JUMP, JUMP_IF_FALSE, JUMP_IF_TRUE and LOOP of a function that runs
\* is the offset of an opcode, and at every dispatch the ip of every frame
\* is the offset of an opcode and never that of an operand byte
C32_JumpsLandOnOpcodes ==
    (phase = "running" /\ result = "NONE") =>
        \A i \in DOMAIN callstack :
            \E opcodes \in {OpcodeOffsets(Heap, FunctionOf(callstack[i]))} :
                /\ callstack[i].ip \in opcodes
                /\ \A offset \in JumpOffsets(FunctionOf(callstack[i])) :
                       JumpTarget(FunctionOf(callstack[i]), offset) \in opcodes

\* the loop of "for" has jumped back to the first byte of its condition
C32_Witness ==
    /\ prog = "for" /\ phase = "running" /\ result = "NONE" /\ Len(out) = 1
    /\ \E offset \in JumpOffsets(FunctionOf(TopFrame)) :
           /\ Heap[FunctionOf(TopFrame)].code[offset + 1] = OP_LOOP
           /\ JumpTarget(FunctionOf(TopFrame), offset) = TopFrame.ip

\* the objects the instruction of this step has allocated
Allocated == (Len(Heap) + 1)..Len(allocator'.heap)

\* C33: an object a VM instruction allocates (the Instance of a class call,
\* the BoundMethod of a property get, the Upvalues and the Closure of
\* CLOSURE, the Class of CLASS, the String of ADD) is not freed when the
\* instruction has ended, whatever collection ran inside its allocations,
\* and is then held by a slot of the operand stack or by the list of open
\* upvalues
C33_NewObjectsSurvive ==
    [][(phase = "running" /\ result' = "NONE") =>
           \A p \in Allocated :
               /\ ~allocator'.heap[p].freed
               /\ \E i \in DOMAIN allocator'.objects : allocator'.objects[i] = p
               /\ \/ \E i \in 1..stack'.top : (is_object(stack'.data[i]) /\ stack'.data[i].v = p)
                  \/ \E i \in DOMAIN open_upvalues' : open_upvalues'[i] = p]_vars

\* CLOSURE has allocated an upvalue and then the closure, the collector has
\* run in both allocations, and both objects are there
C33_Witness ==
    /\ phase = "running" /\ result = "NONE" /\ allocator.stress_gc
    /\ gc.count > 1 /\ stack.top > 0 /\ Len(allocator.objects) > 1
    /\ is_object(Top(Machine))
    /\ Top(Machine).v = allocator.objects[Len(allocator.objects)]
    /\ Heap[Top(Machine).v].kind = "Closure"
    /\ ~Heap[Top(Machine).v].freed
    /\ \E i \in DOMAIN Heap[Top(Machine).v].upvalues :
           /\ Heap[Top(Machine).v].upvalues[i] = allocator.objects[Len(allocator.objects) - 1]
           /\ ~Heap[Heap[Top(Machine).v].upvalues[i]].freed
           /\ \E j \in DOMAIN open_upvalues : open_upvalues[j] = Heap[Top(Machine).v].upvalues[i]

\* a collection has run in this step
Collects == gc'.count > gc.count

\* C34: an instruction of the VM allocates with collect = true (allocate<T>
\* and allocate_string creating a new string): when bytes_allocated is above
\* next_collection once its object is added, collect_garbage has run before
\* the instruction ends; the allocations of the compiler and of the start of
\* interpret, made with collect = false, run no collection; and a collection
\* leaves next_collection = 2 x bytes_allocated
C34_CollectsPastThreshold ==
    [][/\ (phase = "running" /\ Allocated # {} /\ ~Collects) =>
              allocator'.bytes_allocated <= allocator'.next_collection
       /\ phase # "running" => ~Collects
       /\ (Collects /\ result' # "CRASH") =>
              allocator'.next_collection = GrowthFactor * allocator'.bytes_allocated]_vars

\* the instruction is CALL and the callee is a class
CallsClass ==
    /\ phase = "running" /\ Opcode(Machine) = OP_CALL
    /\ IsLiveObject(Callee) /\ Heap[Callee.v].kind = "Class"

\* C35: calling a class, with or without an init method and with any number
\* of arguments, leaves the method table of the class as it was: no entry is
\* added, removed or replaced, and every entry is a closure, none is null
C35_CallKeepsMethodTable ==
    [][(CallsClass /\ result' # "CRASH") =>
           /\ MethodsAfter(Callee.v) = MethodsBefore(Callee.v)
           /\ \A name \in DOMAIN MethodsAfter(Callee.v) :
                  MethodsAfter(Callee.v)[name] # 0]_vars

\* the string_view key of entry name of hash map m still has its characters:
\* those of a String object that is not freed, or (key 0) those of a string
\* literal of the interpreter itself ("clock", "print", "init")
KeyHolds(m, name) ==
    \/ m[name].key = 0
    \/ /\ m[name].key \in DOMAIN Heap
       /\ Heap[m[name].key].kind = "String"
       /\ ~Heap[m[name].key].freed
       /\ Heap[m[name].key].value = name

\* the objects of the list that are classes, and those that are instances
SurvivingClasses == {o \in Live(allocator) : Heap[o].kind = "Class"}

SurvivingInstances == {o \in Live(allocator) : Heap[o].kind = "Instance"}

TokensConsumed == compiler.parser.pos

LoopDepth == Len(compiler.loops)

\* C37: every iteration of the declaration loop, of the loop of a block and
\* of the loop of a class body consumes at least one token or leaves its
\* loop, in panic mode too, so that Parser::parse comes to an end on every
\* stream of tokens
C37_LoopsConsumeTokens ==
    [][(phase = "parsing" /\ prog = "tokens") =>
           \/ TokensConsumed' > TokensConsumed
           \/ LoopDepth' < LoopDepth
           \/ phase' # "parsing"]_vars

\* the programs whose block declares a function f that calls itself
LocalRecPrograms == {"local_rec", "local_rec_global"}

\* the function the top frame runs is the f of the block: the one that has
\* an if statement
RunsLocalFunction ==
    /\ phase = "running" /\ prog \in LocalRecPrograms
    /\ Heap[FunctionOf(TopFrame)].name = "f"
    /\ \E offset \in OpcodeOffsets(Heap, FunctionOf(TopFrame)) :
           Heap[FunctionOf(TopFrame)].code[offset + 1] = OP_JUMP_IF_FALSE

\* C38: a function declared in a block that names itself in its body reads
\* its own local slot through an upvalue, never a global of that name, so
\* that it can call itself: the program prints 1 and ends well
C38_LocalFunctionCallsItself ==
    /\ RunsLocalFunction =>
           ~(/\ Opcode(Machine) = OP_GET_GLOBAL
             /\ is_object(Constant(Machine, ByteAt(Machine, 1)))
             /\ Heap[Constant(Machine, ByteAt(Machine, 1)).v].value = "f")
    /\ (prog \in LocalRecPrograms /\ phase = "done") =>
           (result = "OK" /\ out = <<"1">>)

\* the roots of the collector after this step
RootsAfter ==
    [stack |-> stack', callstack |-> callstack',
     open_upvalues |-> open_upvalues', globals |-> globals']

\* C39: collection is complete: once an instruction in which collect_garbage
\* has run has ended, every object left in the allocator's list is reachable
\* from the roots (the newest object among them) through the references of
\* the objects: one collection frees every unreachable object, those on
\* unreachable cycles too
C39_CollectionIsComplete ==
    [][(phase = "running" /\ Collects /\ result' = "NONE") =>
           Live(allocator') \subseteq Reachable(allocator', RootsAfter)]_vars

\* one collection has freed an instance and the bound method in its field
\* that holds it; a closure and the closed upvalue of it that holds the
\* closure have been freed before
C39_Witness ==
    /\ prog = "cycles" /\ gc.count > 0 /\ result = "NONE"
    /\ \E i \in gc.freed : \E b \in gc.freed :
           /\ Heap[i].kind = "Instance" /\ Heap[b].kind = "BoundMethod"
           /\ Heap[b].receiver = ObjectVal(i)
           /\ b \in ValueMark(MapValues(Heap[i].fields))
    /\ \E f \in DOMAIN Heap : \E u \in DOMAIN Heap :
           /\ Heap[f].kind = "Closure" /\ Heap[u].kind = "UpValue"
           /\ Heap[f].freed /\ Heap[u].freed
           /\ u \in Range(Heap[f].upvalues)
           /\ Heap[u].closed = ObjectVal(f)

\* the instruction is CALL and the callee is a native function
CallsNative ==
    /\ phase = "running" /\ Opcode(Machine) = OP_CALL
    /\ IsLiveObject(Callee) /\ Heap[Callee.v].kind = "NativeFunction"

\* C40: a native called with n arguments, n >= 0, reads the n values of its
\* window and nothing else (print with no argument reads no slot of the
\* stack), and the call puts the one value returned in the place of the
\* callee and its n arguments: the depth of the stack goes down by n
C40_NativeCallWindow ==
    [][CallsNative =>
           /\ result' = "NONE"
           /\ stack'.top = stack.top - ArgCount
           /\ SlotsKept(stack.top - ArgCount - 1)
           /\ Heap[Callee.v].native_fn = "print" =>
                  /\ stack'.data[stack'.top] = NilVal
                  /\ Len(out') = Len(out) + 1]_vars

====
